---- MODULE Spec2Model ----
(***************************************************************************)
(* Model of the command dispatch / response collection / actor failover    *)
(* engine of src/main.py (send_telegram_command, temp_handler,             *)
(* is_bot_blocked, record_bot_failure, clean_and_extract).                 *)
(*                                                                         *)
(* Time is counted in polling ticks: one tick is the asyncio.sleep(0.5) of *)
(* the collection loop, so one second is TicksPerSecond ticks.             *)
(***************************************************************************)
EXTENDS Integers, Sequences, FiniteSets, TLC

----------------------------------------------------------------------------
(* Program constants *)

LEDERDATA_BOT_ID == "primary"
LEDERDATA_BACKUP_BOT_ID == "backup"
ALL_BOT_IDS == <<LEDERDATA_BOT_ID, LEDERDATA_BACKUP_BOT_ID>>
Bots == {LEDERDATA_BOT_ID, LEDERDATA_BACKUP_BOT_ID}

TIMEOUT_PRIMARY == 35
TIMEOUT_BACKUP == 50
BOT_BLOCK_HOURS == 4
IDLE_SILENCE == 4
TicksPerSecond == 2
SecondsPerHour == 3600

BlockTicks == BOT_BLOCK_HOURS * SecondsPerHour * TicksPerSecond
IdleTicks == IDLE_SILENCE * TicksPerSecond

----------------------------------------------------------------------------
(* Bounds of the environment *)

\* number of requests served in one run
MaxDispatch == 2
\* ticks an awaited network call of temp_handler (get_entity, download_media)
\* may take before the handler goes on
MaxAwaitTicks == 2

----------------------------------------------------------------------------
(* Values *)

NoTime == -1
NoKey == "none"
NoVal == "none"
NoBot == "none"

\* the correlation key of a query: re.search(r"/\w+\s+(\d{8,11})", command)
QueryKeys == {NoKey, "D1"}

\* Raw texts an actor may send, described by what clean_and_extract looks at:
\*   dni, ruc, photo : the value of the "DNI : ", "RUC : " and "Foto : " line
\*   nf    : where a "[!] no se encontro ..." phrase stands
\*   fmt   : where "Por favor, usa el formato correcto" stands
\*   spam  : the text carries the actor's anti-spam marker
\* "head" is a phrase that is not preceded by a line break, "tail" one that
\* follows a line break (the footer pattern of clean_and_extract removes
\* "\n[" and "\nPor favor, usa el formato correcto...").
Raw(id, d, nf, fmt, spam) ==
    [id |-> id, dni |-> d, ruc |-> NoVal, photo |-> NoVal, nf |-> nf, fmt |-> fmt, spam |-> spam]

\* the data texts also hold a RUC line and a "Foto : rostro" line
RawData1 == [Raw("data1", "D1", "none", "none", FALSE) EXCEPT !.ruc = "R1", !.photo = "rostro"]
RawData2 == [Raw("data2", "D2", "none", "none", FALSE) EXCEPT !.ruc = "R2", !.photo = "rostro"]
RawNotFound == Raw("nf", NoVal, "head", "none", FALSE)
RawFormat == Raw("fmt", NoVal, "none", "head", FALSE)
RawSpam == Raw("spam", NoVal, "none", "none", TRUE)
\* one line holding the "no se encontro" phrase and the format phrase
RawBoth == Raw("both", NoVal, "head", "head", FALSE)

\* An incoming event: a raw text and its media ("none" or "photo").
Ev(raw, media) == [raw |-> raw, media |-> media]

\* What the actors send during one request, as sequences of events; any prefix
\* of a script may be played, at the times ArrivalOffsets allows.
Scripts ==
    { << Ev(RawData1, "none") >>, << Ev(RawData1, "photo") >>, << Ev(RawData2, "none") >>,
      << Ev(RawNotFound, "none") >>, << Ev(RawFormat, "none") >>, << Ev(RawSpam, "none") >>,
      << Ev(RawSpam, "none"), Ev(RawData1, "none") >>,
      << Ev(RawData1, "none"), Ev(RawNotFound, "none") >>,
      << Ev(RawData2, "none"), Ev(RawData1, "none") >>,
      << Ev(RawNotFound, "none"), Ev(RawFormat, "none") >>,
      << Ev(RawBoth, "none") >> }

\* replies with attachments: two messages with a photo each, and a message
\* with a photo followed by a message without one
MediaScripts ==
    { << Ev(RawData1, "photo"), Ev(RawData2, "photo") >>,
      << Ev(RawData1, "photo"), Ev(RawData2, "none") >> }

\* a reply of one message with a photo
LiveScripts == { << Ev(RawData1, "photo") >> }

\* the scripts of a pool, by its name
ScriptsOf(pool) ==
    IF pool = "Scripts" THEN Scripts
    ELSE IF pool = "MediaScripts" THEN MediaScripts
         ELSE LiveScripts

IsPrefix(s, t) == Len(s) <= Len(t) /\ SubSeq(t, 1, Len(s)) = s

\* delay of a reply, counted from the send_message of the command to its sender
ArrivalOffsets ==
    {0, 1, IdleTicks + 1, IdleTicks + 2}
    \cup { TicksPerSecond * t + d : t \in {TIMEOUT_PRIMARY, TIMEOUT_BACKUP}, d \in {-1, 0, 1} }

\* times at which the requests after the first arrive: one tick before and
\* exactly when a failure recorded by the first timeout of the primary expires
FirstTimeoutAt == TicksPerSecond * TIMEOUT_PRIMARY + 1
RequestTimes == {FirstTimeoutAt + BlockTicks - 1, FirstTimeoutAt + BlockTicks}

\* request threads of the Flask server (app.run serves each request in its own
\* thread), as far as they are inside the circuit breaker
Threads == {"t1", "t2"}

\* clock readings at which the threads call the circuit breaker: the start, one
\* tick later, and the ends of the block windows opened at these two times
BreakerTimes == {0, 1, BlockTicks, BlockTicks + 1}

ConnectOutcomes == {"ok", "no_credentials", "connect_error", "unauthorized"}
\* what send_message does: it delivers, raises UserBlockedError, raises an
\* error whose text holds "blocked", one whose text holds "timeout" (Telethon's
\* TimedOutError: "A timeout occurred while fetching data from the worker"),
\* or another error.  The code looks for "timeout" only in the message of the
\* error that ends the dispatch, so the outcome TimeoutTextError is told apart
\* from OtherError for the last actor of bots_order only.
SendOutcomes == {"ok", "UserBlockedError", "BlockedTextError", "TimeoutTextError", "OtherError"}
DisconnectOutcomes == {"ok", "error"}

Range(s) == { s[i] : i \in 1..Len(s) }

\* two requests served at the same time, each by its own call of
\* send_telegram_command with its own TelegramClient on the one SESSION_STRING
Queries == {"q1", "q2"}
\* keys of the concurrent queries: none, the same DNI, another DNI
CrossKeys == {NoKey, "D1", "D2"}
\* the second request starts with the first one or half a second later
CrossStartTimes == {0, 1}
\* the locals of one call; origins and refreshedBy remember which query the
\* messages appended and the messages that set last_message_time answered
IdleQuery ==
    [pc |-> "idle", dni |-> NoKey, sentAt |-> NoTime, handlers |-> << >>,
     all_received_messages |-> << >>, origins |-> << >>, last_message_time |-> NoTime,
     refreshedBy |-> {}, replied |-> FALSE]
\* the text the actor answers a query with: the data of the DNI asked for
ReplyTo(key) == Ev(IF key = "D1" THEN RawData1 ELSE RawData2, "none")

----------------------------------------------------------------------------
VARIABLES
    now,                   \* wall clock, in ticks
    bot_fail_tracker,      \* bot -> time of the last recorded failure, NoTime if absent
    pc,                    \* position of the request in send_telegram_command
    dispatchNo,            \* number of requests started so far
    dni,                   \* correlation key of the running request
    client,                \* TRUE while a connected TelegramClient exists
    bots_order,            \* eligible actors, in order
    attempt,               \* 1-based index of the current actor in bots_order
    all_received_messages, \* messages accepted in the current attempt
    last_message_time,
    start_time,
    stop_collecting,
    handlers,              \* temp_handler tasks in flight
    played,                \* events the actors have sent in this request
    result,                \* value returned by send_telegram_command
    status_code,           \* HTTP status handle_api_endpoint answers the request with
    \* history of the running request
    reqStart,              \* time the request started
    sendLog,               \* actors send_message was called for, in order
    sentAt,                \* bot -> time send_message delivered the command
    session,               \* bot -> state of its collection session: WAITING while
                           \* the list is empty, COLLECTING once it holds a message
    closedMsgs,            \* the message list of the session that closed CLOSED_OK
    failLog,               \* the record_bot_failure calls of this request
    atOrder,               \* bot_fail_tracker and clock when bots_order was built
    answered,              \* bot -> raw texts of it that reached the key filter in its session
    envLog,                \* what connect, the storage lookup, send_message and disconnect did
    \* history across requests
    blockedLog,            \* bot -> the last is_bot_blocked call for it
    timeoutAt,             \* bot -> time of its stored failure, if a timeout recorded it
    \* the circuit breaker called from concurrent request threads
    threads,               \* thread -> its position and locals in is_bot_blocked
    lastOp,                \* the last call of the breaker that returned
    lastRecord,            \* bot -> time of the last record_bot_failure that returned
    \* the environment of the run
    script_pool,           \* which scripts the actors play from: the name of a pool
    \* requests running at the same time on the one Telegram account
    queries,               \* query -> its key, position, handler tasks and message list
    \* the storage cache helpers
    cache                  \* the bucket and the running call of a helper

vars == << now, bot_fail_tracker, pc, dispatchNo, dni, client, bots_order, attempt,
           all_received_messages, last_message_time, start_time, stop_collecting,
           handlers, played, result, reqStart, sendLog, sentAt, session, closedMsgs,
           failLog, atOrder, answered, envLog, blockedLog, timeoutAt,
           threads, lastOp, lastRecord, script_pool, queries, status_code, cache >>

breakerVars == << threads, lastOp, lastRecord >>

reqVars == << dni, client, bots_order, attempt, all_received_messages, last_message_time,
              start_time, stop_collecting, handlers, played, result, reqStart, sendLog,
              sentAt, session, closedMsgs, failLog, atOrder, answered, envLog >>

----------------------------------------------------------------------------
(* Circuit breaker *)

\* is_bot_blocked with the window closed one tick late (">=" for ">")
is_bot_blocked_inclusive(tracker, bot_id, t) ==
    LET last_fail_time == tracker[bot_id]
        block_time_ago == t - BlockTicks
    IN  IF last_fail_time = NoTime
        THEN [ret |-> FALSE, tracker |-> tracker]
        ELSE IF last_fail_time >= block_time_ago
             THEN [ret |-> TRUE, tracker |-> tracker]
             ELSE [ret |-> FALSE, tracker |-> [tracker EXCEPT ![bot_id] = NoTime]]

\* is_bot_blocked without "bot_fail_tracker.pop(bot_id, None)"
is_bot_blocked_keeps_expired(tracker, bot_id, t) ==
    LET last_fail_time == tracker[bot_id]
        block_time_ago == t - BlockTicks
    IN  IF last_fail_time = NoTime
        THEN [ret |-> FALSE, tracker |-> tracker]
        ELSE [ret |-> last_fail_time > block_time_ago, tracker |-> tracker]

\* is_bot_blocked(bot_id) at time t: the value returned and the tracker it leaves
is_bot_blocked(tracker, bot_id, t) ==
    LET last_fail_time == tracker[bot_id]
        block_time_ago == t - BlockTicks
    IN  IF last_fail_time = NoTime
        THEN [ret |-> FALSE, tracker |-> tracker]
        ELSE IF last_fail_time > block_time_ago
             THEN [ret |-> TRUE, tracker |-> tracker]
             ELSE [ret |-> FALSE, tracker |-> [tracker EXCEPT ![bot_id] = NoTime]]

\* record_bot_failure that keeps a time already stored
record_bot_failure_keeps_first(tracker, bot_id, t) ==
    IF tracker[bot_id] = NoTime THEN [tracker EXCEPT ![bot_id] = t] ELSE tracker

\* record_bot_failure that stores the time for every actor
record_bot_failure_all(tracker, bot_id, t) == [b \in DOMAIN tracker |-> t]

\* record_bot_failure(bot_id) at time t
record_bot_failure(tracker, bot_id, t) == [tracker EXCEPT ![bot_id] = t]

----------------------------------------------------------------------------
(* Text normalisation and the message object of temp_handler *)

FieldKeys == {"dni", "ruc", "photo_type", "not_found"}
NoFields == [k \in FieldKeys |-> NoVal]

\* clean_and_extract: the cleaned text keeps a phrase that stood at the head,
\* loses one that followed a line break; the fields come from the cleaned text
clean_and_extract(raw) ==
    [ text   |-> [id |-> raw.id, fmt |-> (raw.fmt = "head"), spam |-> raw.spam],
      fields |-> [k \in FieldKeys |->
                    CASE k = "dni" -> raw.dni
                      [] k = "ruc" -> raw.ruc
                      [] k = "photo_type" -> raw.photo
                      [] k = "not_found" -> IF raw.nf = "head" THEN "True" ELSE NoVal] ]

\* the loop over bots_order with get_entity: the sender is any actor of the list
SenderIsCurrentBot(sender, order) == \E i \in 1..Len(order) : order[i] = sender

\* the handler without the DNI check
RejectedByKeyNever(key, cleaned) == FALSE

\* "if dni and cleaned['fields'].get('dni') != dni: return"
RejectedByKey(key, cleaned) == key # NoKey /\ cleaned.fields["dni"] # key

\* url_obj of one downloaded media
UrlObj(ev, cleaned) ==
    [ url  |-> ev.raw.id,
      type |-> IF cleaned.fields["photo_type"] # NoVal THEN cleaned.fields["photo_type"]
               ELSE IF ev.media = "photo" THEN "image" ELSE "document",
      text_context |-> ev.raw.id ]

MsgObj(ev, sender, urls) ==
    LET cleaned == clean_and_extract(ev.raw)
    IN  [message |-> cleaned.text, fields |-> cleaned.fields, urls |-> urls, bot_id |-> sender]

----------------------------------------------------------------------------
(* Processing of a closed session *)

Res(status, error, bot) ==
    [ status |-> status, error |-> error, bot_used |-> bot, message |-> << >>,
      fields |-> NoFields, urls |-> << >>, dni |-> NoVal, ruc |-> NoVal,
      total_messages |-> 0, from_cache |-> FALSE ]

NoResult == Res("none", "none", NoBot)

RECURSIVE MergeFieldsLastWins(_, _)
\* the consolidation of the fields with "all_fields[key] = value" for every key
MergeFieldsLastWins(msgs, all_fields) ==
    IF msgs = << >> THEN all_fields
    ELSE MergeFieldsLastWins(Tail(msgs),
            [k \in FieldKeys |-> IF Head(msgs).fields[k] # NoVal THEN Head(msgs).fields[k]
                                 ELSE all_fields[k]])

RECURSIVE MergeFields(_, _)
\* "for key, value in msg['fields'].items(): if key not in all_fields: ..."
MergeFields(msgs, all_fields) ==
    IF msgs = << >> THEN all_fields
    ELSE MergeFields(Tail(msgs),
            [k \in FieldKeys |-> IF all_fields[k] = NoVal THEN Head(msgs).fields[k]
                                 ELSE all_fields[k]])

RECURSIVE ConcatUrlsByType(_)
\* final_urls as a dict keyed by the type of the file: a later file replaces
\* an earlier one of the same type
ConcatUrlsByType(msgs) ==
    IF msgs = << >> THEN << >>
    ELSE LET rest == ConcatUrlsByType(Tail(msgs))
         IN  SelectSeq(Head(msgs).urls,
                       LAMBDA u : \A j \in 1..Len(rest) : rest[j].type # u.type) \o rest

RECURSIVE ConcatUrls(_)
\* "for url_obj in msg['urls']: final_urls.append({...})" over the messages
ConcatUrls(msgs) ==
    IF msgs = << >> THEN << >> ELSE Head(msgs).urls \o ConcatUrls(Tail(msgs))

\* final_json with dni and ruc copied to the top level but left in the fields
FinalJsonKeepsIdentifiers(msgs, bot) ==
    LET all_fields == MergeFields(msgs, NoFields)
    IN  [ status |-> "ok", error |-> "none", bot_used |-> bot,
          message |-> [i \in 1..Len(msgs) |-> msgs[i].message],
          fields |-> all_fields, urls |-> ConcatUrls(msgs),
          dni |-> all_fields["dni"], ruc |-> all_fields["ruc"],
          total_messages |-> Len(msgs), from_cache |-> FALSE ]

\* the consolidation of step 12 and the move of dni and ruc to the top level
FinalJson(msgs, bot) ==
    LET final_text == [i \in 1..Len(msgs) |-> msgs[i].message]
        all_fields == MergeFields(msgs, NoFields)
        dni_val == all_fields["dni"]
        ruc_val == all_fields["ruc"]
    IN  [ status |-> "ok", error |-> "none", bot_used |-> bot, message |-> final_text,
          fields |-> [k \in FieldKeys |-> IF k \in {"dni", "ruc"} THEN NoVal ELSE all_fields[k]],
          urls |-> ConcatUrls(msgs), dni |-> dni_val, ruc |-> ruc_val,
          total_messages |-> Len(msgs), from_cache |-> FALSE ]

\* step 13: the entries of the uploaded files are appended to final_json["urls"]
AddFirebaseUrls(final_json, uploaded) ==
    IF uploaded
    THEN [final_json EXCEPT !.urls =
            final_json.urls \o [i \in 1..Len(final_json.urls) |->
                                  [url |-> final_json.urls[i].url, type |-> "firebase_storage",
                                   text_context |-> NoVal]]]
    ELSE final_json

\* step 12 with "not found" raised as an exception instead of returned
RespondRaisesNotFound(msgs, bot) ==
    IF msgs # << >>
    THEN IF \E i \in 1..Len(msgs) : msgs[i].message.fmt
         THEN [raise |-> FALSE, result |-> Res("error_bot_format", "format", bot)]
         ELSE IF \E i \in 1..Len(msgs) : msgs[i].fields["not_found"] # NoVal
              THEN [raise |-> TRUE, result |-> Res("error", "not_found", NoBot)]
              ELSE [raise |-> FALSE, result |-> FinalJson(msgs, bot)]
    ELSE [raise |-> TRUE, result |-> Res("error", "no_messages", NoBot)]

\* step 12 without the "not found" check: the messages are aggregated
RespondAggregatesNotFound(msgs, bot) ==
    IF msgs # << >>
    THEN IF \E i \in 1..Len(msgs) : msgs[i].message.fmt
         THEN [raise |-> FALSE, result |-> Res("error_bot_format", "format", bot)]
         ELSE [raise |-> FALSE, result |-> FinalJson(msgs, bot)]
    ELSE [raise |-> TRUE, result |-> Res("error", "no_messages", NoBot)]

\* step 12: what the code does with the message list once the loop is left
Respond(msgs, bot) ==
    IF msgs # << >>
    THEN IF \E i \in 1..Len(msgs) : msgs[i].message.fmt
         THEN [raise |-> FALSE, result |-> Res("error_bot_format", "format", bot)]
         ELSE IF \E i \in 1..Len(msgs) : msgs[i].fields["not_found"] # NoVal
              THEN [raise |-> FALSE, result |-> Res("error_not_found", "not_found", bot)]
              ELSE [raise |-> FALSE, result |-> FinalJson(msgs, bot)]
    ELSE [raise |-> TRUE, result |-> Res("error", "no_messages", NoBot)]

\* the generic "except Exception as e" of send_telegram_command
ErrorResult(error) == Res("error", error, NoBot)

----------------------------------------------------------------------------
(* Decisions of the failover loop *)

\* TIMEOUT_BACKUP used for every actor
TimeoutOfBackupForAll(bot_id) == TicksPerSecond * TIMEOUT_BACKUP

\* TIMEOUT_PRIMARY used for every actor
TimeoutOfPrimaryForAll(bot_id) == TicksPerSecond * TIMEOUT_PRIMARY

TimeoutOf(bot_id) ==
    TicksPerSecond * (IF bot_id = LEDERDATA_BOT_ID THEN TIMEOUT_PRIMARY ELSE TIMEOUT_BACKUP)

\* step 8 with the backup appended before the primary
EligibleBotsBackupFirst(blockedPrimary, blockedBackup) ==
    (IF ~blockedBackup THEN << LEDERDATA_BACKUP_BOT_ID >> ELSE << >>)
    \o (IF ~blockedPrimary THEN << LEDERDATA_BOT_ID >> ELSE << >>)

\* step 8 without the is_bot_blocked test of the primary
EligibleBotsPrimaryAlways(blockedPrimary, blockedBackup) ==
    << LEDERDATA_BOT_ID >>
    \o (IF ~blockedBackup THEN << LEDERDATA_BACKUP_BOT_ID >> ELSE << >>)

\* step 8: the actors that are not blocked, primary first
EligibleBots(blockedPrimary, blockedBackup) ==
    (IF ~blockedPrimary THEN << LEDERDATA_BOT_ID >> ELSE << >>)
    \o (IF ~blockedBackup THEN << LEDERDATA_BACKUP_BOT_ID >> ELSE << >>)

\* the timeout branch recording a failure whatever the actor is
RecordsOnTimeoutAlways(bot_id) == TRUE

\* the timeout branch never recording a failure
RecordsOnTimeoutNever(bot_id) == FALSE

\* "if current_bot_id == LEDERDATA_BOT_ID: record_bot_failure(LEDERDATA_BOT_ID)"
RecordsOnTimeout(bot_id) == bot_id = LEDERDATA_BOT_ID

\* "if attempt < len(bots_order): continue"
HasNextBot(n, order) == n < Len(order)

\* a retry that stays on the same actor
NextAttemptSame(n) == n

\* enumerate(bots_order, 1): the attempt that follows attempt n
NextAttempt(n) == n + 1

----------------------------------------------------------------------------
(* Initial state: the module has just been loaded *)

CallLog(at, stored, ret) == [at |-> at, stored |-> stored, ret |-> ret]

\* a thread outside the circuit breaker; eligible holds the actors its last
\* is_bot_blocked call found not blocked and it has recorded no failure for
IdleThread(eligible) ==
    [ pc |-> "idle", bot_id |-> NoBot, last_fail_time |-> NoTime, recAtStart |-> NoTime,
      eligible |-> eligible ]

\* a call of the circuit breaker that returned: what it read, what it returned,
\* bot_fail_tracker before and after its last statement
OpLog(op, bot_id, at, found, ret, before, after, recAtStart) ==
    [ op |-> op, bot_id |-> bot_id, at |-> at, found |-> found, ret |-> ret,
      before |-> before, after |-> after, recAtStart |-> recAtStart ]

NoOp ==
    OpLog("none", NoBot, NoTime, NoTime, FALSE, [b \in Bots |-> NoTime],
          [b \in Bots |-> NoTime], NoTime)

----------------------------------------------------------------------------
(* handle_api_endpoint: the HTTP status of the result of the dispatch       *)

\* '"timeout" in result.get("message", "").lower()': of the messages the
\* dispatch builds itself, "Ningún bot respondió. Último timeout: ..." has it;
\* "Error al procesar comando: {str(e)}" has it when the text of e does
MessageHasTimeout(error) == error \in {"no_response", "TimeoutTextError"}

\* 'result.get("status", "").startswith("error")'
StatusIsError(status) == status \in {"error", "error_bot_format", "error_not_found"}

\* the mapping without the test for "timeout" in the message
HttpStatusWithoutTimeout(res) ==
    IF ~StatusIsError(res.status) THEN 200
    ELSE IF res.status = "error_bot_format" THEN 400
         ELSE IF res.status = "error_not_found" THEN 404 ELSE 500

\* the status code handle_api_endpoint answers with; jsonify(result) without
\* a code is 200
HttpStatus(res) ==
    IF ~StatusIsError(res.status) THEN 200
    ELSE IF res.status = "error_bot_format" THEN 400
         ELSE IF res.status = "error_not_found" THEN 404
              ELSE IF MessageHasTimeout(res.error) THEN 504 ELSE 500

\* no request has been answered
NoStatusCode == 0

----------------------------------------------------------------------------
(* storage_cache.py: the bucket and the calls of its two helpers *)

\* the arguments of the helpers
CacheCommands == {"dni"}
CacheParams == {"p1", "p2"}
Extensions == {"jpg", "pdf"}

\* the cache key of a command and its parameters
generate_cache_key(command, params) == << command, params >>

\* the object save_file_to_cache writes
build_storage_path(command, cache_key, extension) ==
    [command |-> command, cache_key |-> cache_key, extension |-> extension]

\* "bucket.list_blobs(prefix=f'telegram-results/{command}/{cache_key}')"
list_blobs(bucket, command, cache_key) ==
    { o \in bucket : o.command = command /\ o.cache_key = cache_key }

\* blobs[0]: the first object of the listing, which is ordered by name
FirstBlob(blobs) ==
    IF \E o \in blobs : o.extension = "jpg"
    THEN CHOOSE o \in blobs : o.extension = "jpg"
    ELSE CHOOSE o \in blobs : TRUE

\* a call made by a helper returns or raises an Exception
CallOutcomes == {"ok", "error"}

\* no helper is running; the bucket holds the objects of the set
IdleCache(bucket) ==
    [ bucket |-> bucket, pc |-> "idle", fn |-> "none", command |-> "none", params |-> "none",
      extension |-> "none", blobs |-> {}, steps |-> << >>, failed |-> "none",
      ret |-> "none", raised |-> FALSE ]

----------------------------------------------------------------------------
\* nothing was asked of the collaborators yet
NoEnv == [conn |-> "none", hit |-> "none", sent |-> [b \in Bots |-> "none"], disc |-> "none"]

ReqFields(key, t) ==
    [ dni |-> key, client |-> FALSE, bots_order |-> << >>, attempt |-> 0,
      all_received_messages |-> << >>, last_message_time |-> NoTime, start_time |-> NoTime,
      stop_collecting |-> FALSE, handlers |-> << >>, played |-> << >>, result |-> NoResult,
      reqStart |-> t, sendLog |-> << >>, sentAt |-> [b \in Bots |-> NoTime],
      session |-> [b \in Bots |-> "NONE"], closedMsgs |-> << >>, failLog |-> << >>,
      atOrder |-> [tracker |-> [b \in Bots |-> NoTime], at |-> NoTime],
      answered |-> [b \in Bots |-> {}], envLog |-> NoEnv ]

InitWith(pool) ==
    /\ script_pool = pool
    /\ queries = [q \in Queries |-> IdleQuery]
    /\ cache = IdleCache({})
    /\ status_code = NoStatusCode
    /\ now = 0
    /\ bot_fail_tracker = [b \in Bots |-> NoTime]
    /\ pc = "idle"
    /\ dispatchNo = 0
    /\ blockedLog = [b \in Bots |-> CallLog(NoTime, NoTime, FALSE)]
    /\ timeoutAt = [b \in Bots |-> NoTime]
    /\ threads = [t \in Threads |-> IdleThread({})]
    /\ lastOp = NoOp
    /\ lastRecord = [b \in Bots |-> NoTime]
    /\ LET r == ReqFields(NoKey, NoTime)
       IN  /\ dni = r.dni /\ client = r.client /\ bots_order = r.bots_order
           /\ attempt = r.attempt /\ all_received_messages = r.all_received_messages
           /\ last_message_time = r.last_message_time /\ start_time = r.start_time
           /\ stop_collecting = r.stop_collecting /\ handlers = r.handlers
           /\ played = r.played /\ result = r.result /\ reqStart = r.reqStart
           /\ sendLog = r.sendLog /\ sentAt = r.sentAt /\ session = r.session
           /\ closedMsgs = r.closedMsgs /\ failLog = r.failLog /\ atOrder = r.atOrder
           /\ answered = r.answered /\ envLog = r.envLog

\* the actors answer with the texts of Scripts
Init == InitWith("Scripts")

\* the actors answer with messages that carry attachments
MediaInit == InitWith("MediaScripts")

----------------------------------------------------------------------------
(* The request: handle_api_endpoint -> run_telegram_command ->             *)
(* send_telegram_command                                                   *)

\* A request arrives; the first one starts the clock, the later ones arrive at
\* the times of RequestTimes.
StartRequest(key) ==
    /\ pc \in {"idle", "done"}
    /\ dispatchNo < MaxDispatch
    /\ dispatchNo = 0 \/ now \in RequestTimes
    /\ dispatchNo' = dispatchNo + 1
    /\ pc' = "connect"
    /\ LET r == ReqFields(key, now)
       IN  /\ dni' = r.dni /\ client' = r.client /\ bots_order' = r.bots_order
           /\ attempt' = r.attempt /\ all_received_messages' = r.all_received_messages
           /\ last_message_time' = r.last_message_time /\ start_time' = r.start_time
           /\ stop_collecting' = r.stop_collecting /\ handlers' = r.handlers
           /\ played' = r.played /\ result' = r.result /\ reqStart' = r.reqStart
           /\ sendLog' = r.sendLog /\ sentAt' = r.sentAt /\ session' = r.session
           /\ closedMsgs' = r.closedMsgs /\ failLog' = r.failLog /\ atOrder' = r.atOrder
           /\ answered' = r.answered /\ envLog' = r.envLog
    /\ status_code' = NoStatusCode
    /\ UNCHANGED << script_pool, cache, queries, breakerVars, now, bot_fail_tracker, blockedLog, timeoutAt >>

\* steps 1-3 going on to step 4 although one of them failed
ConnectRaisesNever(conn) == FALSE

\* "raise Exception(...)" of steps 1-3: credentials missing, connect failed,
\* client not authorized
ConnectRaises(conn) == conn # "ok"

\* steps 1-3: credentials, client, connect, is_user_authorized
Connect(conn) ==
    /\ pc = "connect"
    /\ client' = (conn # "no_credentials")
    /\ envLog' = [envLog EXCEPT !.conn = conn]
    /\ IF ConnectRaises(conn)
       THEN pc' = "finally" /\ result' = ErrorResult(conn)
       ELSE pc' = "cache" /\ result' = result
    /\ UNCHANGED << script_pool, cache, status_code, queries, breakerVars, now, bot_fail_tracker, dispatchNo, dni, bots_order, attempt,
                    all_received_messages, last_message_time, start_time, stop_collecting,
                    handlers, played, reqStart, sendLog, sentAt, session, closedMsgs,
                    failLog, atOrder, answered, blockedLog, timeoutAt >>

\* step 7 going on to the actors whatever the storage holds
ReturnsFromCacheNever(hit) == FALSE

\* "if urls_existentes and firebase_available: return {...}"
ReturnsFromCache(hit) == hit

\* the value returned for files found in the storage
CacheResult(key) ==
    [Res("ok", "none", NoBot) EXCEPT !.from_cache = TRUE,
                                     !.fields = [NoFields EXCEPT !["dni"] = key]]

\* step 7: archivos_existentes_en_storage
CacheLookup(hit) ==
    /\ pc = "cache"
    /\ envLog' = [envLog EXCEPT !.hit = IF hit THEN "hit" ELSE "miss"]
    /\ IF ReturnsFromCache(hit)
       THEN pc' = "finally" /\ result' = CacheResult(dni)
       ELSE pc' = "order" /\ result' = result
    /\ UNCHANGED << script_pool, cache, status_code, queries, breakerVars, now, bot_fail_tracker, dispatchNo, dni, client, bots_order, attempt,
                    all_received_messages, last_message_time, start_time, stop_collecting,
                    handlers, played, reqStart, sendLog, sentAt, session, closedMsgs,
                    failLog, atOrder, answered, blockedLog, timeoutAt >>

\* "Resetear para este intento" at the top of the loop over bots_order
ResetAttempt(n) ==
    /\ attempt' = n
    /\ all_received_messages' = << >>
    /\ stop_collecting' = FALSE
    /\ last_message_time' = now

\* steps 8-10 and the entry of the loop, up to the await of send_message
BuildBotsOrder ==
    /\ pc = "order"
    /\ LET p == is_bot_blocked(bot_fail_tracker, LEDERDATA_BOT_ID, now)
           b == is_bot_blocked(p.tracker, LEDERDATA_BACKUP_BOT_ID, now)
           order == EligibleBots(p.ret, b.ret)
       IN  /\ bot_fail_tracker' = b.tracker
           /\ blockedLog' =
                [x \in Bots |->
                    IF x = LEDERDATA_BOT_ID
                    THEN CallLog(now, bot_fail_tracker[x], p.ret)
                    ELSE CallLog(now, p.tracker[x], b.ret)]
           /\ atOrder' = [tracker |-> bot_fail_tracker, at |-> now]
           /\ bots_order' = order
           /\ IF order = << >>
              THEN /\ pc' = "finally"
                   /\ result' = ErrorResult("all_blocked")
                   /\ UNCHANGED << attempt, all_received_messages, stop_collecting,
                                   last_message_time >>
              ELSE /\ pc' = "send"
                   /\ result' = result
                   /\ ResetAttempt(1)
    /\ UNCHANGED << script_pool, cache, status_code, queries, breakerVars, envLog, now, dispatchNo, dni, client, start_time, handlers, played, reqStart,
                    sendLog, sentAt, session, closedMsgs, failLog, answered, timeoutAt >>

\* "if attempt < len(bots_order): continue, else: raise": go on with the next
\* actor of the list, or leave the loop with the error
ContinueOrRaise(error) ==
    IF HasNextBot(attempt, bots_order)
    THEN /\ ResetAttempt(NextAttempt(attempt))
         /\ pc' = "send"
         /\ result' = result
    ELSE /\ pc' = "finally"
         /\ result' = ErrorResult(error)
         /\ UNCHANGED << attempt, all_received_messages, stop_collecting, last_message_time >>

\* record_bot_failure for bot_id in the running request
RecordFailure(bot_id, cause) ==
    /\ bot_fail_tracker' = record_bot_failure(bot_fail_tracker, bot_id, now)
    /\ failLog' = Append(failLog, [bot |-> bot_id, at |-> now, cause |-> cause])
    /\ timeoutAt' = [timeoutAt EXCEPT ![bot_id] = IF cause = "timeout" THEN now ELSE NoTime]

\* the two except clauses of the loop recording nothing
RecordsOnSendFailureNever(sent, bot_id) == NoBot

\* the actor a failed send_message records a failure for: the current one on
\* UserBlockedError, the primary on another error whose text holds "blocked"
\* while the primary is the current actor, none otherwise
RecordsOnSendFailure(sent, bot_id) ==
    IF sent = "UserBlockedError" THEN bot_id
    ELSE IF sent = "BlockedTextError" /\ bot_id = LEDERDATA_BOT_ID THEN LEDERDATA_BOT_ID
         ELSE NoBot

\* "await client.send_message(current_bot_id, command)" and what follows it
SendCommand(sent) ==
    /\ pc = "send"
    /\ sent = "TimeoutTextError" => ~HasNextBot(attempt, bots_order)
    /\ LET current_bot_id == bots_order[attempt]
       IN  /\ sendLog' = Append(sendLog, current_bot_id)
           /\ envLog' = [envLog EXCEPT !.sent[current_bot_id] = sent]
           /\ IF sent = "ok"
              THEN /\ start_time' = now
                   /\ sentAt' = [sentAt EXCEPT ![current_bot_id] = now]
                   /\ session' = [session EXCEPT ![current_bot_id] =
                                    IF all_received_messages = << >> THEN "WAITING"
                                    ELSE "COLLECTING"]
                   /\ pc' = "poll"
                   /\ UNCHANGED << bot_fail_tracker, failLog, timeoutAt, attempt, result,
                                   all_received_messages, stop_collecting, last_message_time >>
              ELSE /\ session' = [session EXCEPT ![current_bot_id] = "SEND_FAILED"]
                   /\ UNCHANGED << start_time, sentAt >>
                   /\ IF RecordsOnSendFailure(sent, current_bot_id) # NoBot
                      THEN RecordFailure(RecordsOnSendFailure(sent, current_bot_id), "send")
                      ELSE UNCHANGED << bot_fail_tracker, failLog, timeoutAt >>
                   /\ ContinueOrRaise(sent)
    /\ UNCHANGED << script_pool, cache, status_code, queries, breakerVars, now, dispatchNo, dni, client, bots_order, handlers, played, reqStart,
                    closedMsgs, atOrder, answered, blockedLog >>

\* the silence test with ">=" for ">"
SilenceReachedInclusive ==
    Len(all_received_messages) > 0 /\ now - last_message_time >= IdleTicks

\* the waiting loop breaking on silence although nothing was received
SilenceReachedWhenEmpty == now - last_message_time > IdleTicks

\* the total timeout raising asyncio.TimeoutError whatever was received
RaisesOnTotalTimeoutAlways == TRUE

\* the conditions one iteration of the waiting loop evaluates
SilenceReached ==
    Len(all_received_messages) > 0 /\ now - last_message_time > IdleTicks
TotalElapsed == now - start_time > TimeoutOf(bots_order[attempt])
\* "if len(all_received_messages) == 0: raise asyncio.TimeoutError(...) else: break"
RaisesOnTotalTimeout == Len(all_received_messages) = 0

\* the loop goes to sleep for half a second; an awaited call of a handler
\* returns within MaxAwaitTicks
PollSleep ==
    /\ pc = "poll"
    /\ ~SilenceReached /\ ~TotalElapsed
    /\ \A i \in 1..Len(handlers) : now - handlers[i].since < MaxAwaitTicks
    /\ now' = now + 1
    /\ UNCHANGED << script_pool, cache, status_code, queries, breakerVars, bot_fail_tracker, pc, dispatchNo, blockedLog, timeoutAt, reqVars >>

\* the loop is left by a break: the session closes with its messages (steps
\* 12 and 13); uploaded: the files of the session were stored by
\* subir_archivos_a_storage
PollClose(uploaded) ==
    /\ pc = "poll"
    /\ SilenceReached \/ (TotalElapsed /\ ~RaisesOnTotalTimeout)
    /\ LET current_bot_id == bots_order[attempt]
           r == Respond(all_received_messages, current_bot_id)
       IN  /\ session' = [session EXCEPT ![current_bot_id] = "CLOSED_OK"]
           /\ closedMsgs' = all_received_messages
           /\ uploaded => (~r.raise /\ r.result.status = "ok" /\ r.result.urls # << >>)
           /\ IF r.raise
              THEN ContinueOrRaise(r.result.error)
              ELSE /\ stop_collecting' = TRUE
                   /\ result' = AddFirebaseUrls(r.result, uploaded)
                   /\ pc' = "finally"
                   /\ UNCHANGED << attempt, all_received_messages, last_message_time >>
    /\ UNCHANGED << script_pool, cache, status_code, queries, breakerVars, envLog, now, bot_fail_tracker, dispatchNo, dni, client, bots_order, start_time,
                    handlers, played, reqStart, sendLog, sentAt, failLog, atOrder,
                    answered, blockedLog, timeoutAt >>

\* the loop is left by asyncio.TimeoutError: nothing was received in time
PollTimeout ==
    /\ pc = "poll"
    /\ ~SilenceReached /\ TotalElapsed /\ RaisesOnTotalTimeout
    /\ LET current_bot_id == bots_order[attempt]
       IN  /\ session' = [session EXCEPT ![current_bot_id] = "CLOSED_EMPTY_TIMEOUT"]
           /\ IF RecordsOnTimeout(current_bot_id)
              THEN RecordFailure(LEDERDATA_BOT_ID, "timeout")
              ELSE UNCHANGED << bot_fail_tracker, failLog, timeoutAt >>
           /\ ContinueOrRaise("no_response")
    /\ UNCHANGED << script_pool, cache, status_code, queries, breakerVars, envLog, now, dispatchNo, dni, client, bots_order, start_time, handlers, played,
                    reqStart, sendLog, sentAt, closedMsgs, atOrder, answered, blockedLog >>

\* the finally block leaving the client connected
CallsDisconnectNever(c) == FALSE

\* "if client:" of the finally block
CallsDisconnect(c) == c

\* step 14: "try: await client.disconnect() except: pass" and cleanup; the
\* value of the return statement is handed to the caller afterwards, and
\* handle_api_endpoint answers the request
Finally(disc) ==
    /\ pc = "finally"
    /\ pc' = "done"
    /\ IF CallsDisconnect(client)
       THEN client' = FALSE /\ envLog' = [envLog EXCEPT !.disc = disc]
       ELSE client' = client /\ disc = "ok" /\ envLog' = envLog
    /\ handlers' = << >>
    /\ status_code' = HttpStatus(result)
    /\ UNCHANGED << script_pool, cache, queries, breakerVars, now, bot_fail_tracker, dispatchNo, dni, bots_order, attempt,
                    all_received_messages, last_message_time, start_time, stop_collecting,
                    played, result, reqStart, sendLog, sentAt, session, closedMsgs,
                    failLog, atOrder, answered, blockedLog, timeoutAt >>

----------------------------------------------------------------------------
(* temp_handler: one task per incoming message *)

RemoveAt(seq, i) == SubSeq(seq, 1, i - 1) \o SubSeq(seq, i + 1, Len(seq))

\* the session of the actor being collected has a message from now on
Collecting(sess) ==
    IF attempt \in 1..Len(bots_order) /\ sess[bots_order[attempt]] = "WAITING"
    THEN [sess EXCEPT ![bots_order[attempt]] = "COLLECTING"]
    ELSE sess

\* An actor that was sent the command sends the next event of a script: the
\* handler starts, unless stop_collecting is set ("if stop_collecting.is_set():
\* return"), and awaits get_entity.
Arrive(sender) ==
    /\ pc \in {"send", "poll", "finally"}
    /\ sentAt[sender] # NoTime
    /\ now - sentAt[sender] \in ArrivalOffsets
    /\ \E s \in ScriptsOf(script_pool) :
         /\ IsPrefix(played, s) /\ Len(s) > Len(played)
         /\ LET ev == s[Len(played) + 1]
            IN  /\ played' = Append(played, ev)
                /\ handlers' = IF stop_collecting THEN handlers
                               ELSE Append(handlers, [ev |-> ev, sender |-> sender,
                                                      at |-> "entity", since |-> now])
    /\ UNCHANGED << script_pool, cache, status_code, queries, breakerVars, envLog, now, bot_fail_tracker, pc, dispatchNo, dni, client, bots_order, attempt,
                    all_received_messages, last_message_time, start_time, stop_collecting,
                    result, reqStart, sendLog, sentAt, session, closedMsgs, failLog,
                    atOrder, answered, blockedLog, timeoutAt >>

\* get_entity has returned: sender check, last_message_time, clean_and_extract,
\* key filter, then either the await of download_media or the append
HandlerEntity(i) ==
    /\ pc \in {"send", "poll", "finally"}
    /\ i \in 1..Len(handlers)
    /\ handlers[i].at = "entity"
    /\ LET h == handlers[i]
           cleaned == clean_and_extract(h.ev.raw)
       IN  IF ~SenderIsCurrentBot(h.sender, bots_order)
           THEN /\ handlers' = RemoveAt(handlers, i)
                /\ UNCHANGED << last_message_time, all_received_messages, answered, session >>
           ELSE /\ last_message_time' = now
                /\ answered' = IF session[h.sender] \in {"WAITING", "COLLECTING"}
                               THEN [answered EXCEPT ![h.sender] = @ \cup {h.ev.raw}]
                               ELSE answered
                /\ IF RejectedByKey(dni, cleaned)
                   THEN /\ handlers' = RemoveAt(handlers, i)
                        /\ UNCHANGED << all_received_messages, session >>
                   ELSE IF h.ev.media # "none"
                        THEN /\ handlers' = [handlers EXCEPT ![i].at = "download",
                                                             ![i].since = now]
                             /\ UNCHANGED << all_received_messages, session >>
                        ELSE /\ handlers' = RemoveAt(handlers, i)
                             /\ all_received_messages' =
                                  Append(all_received_messages, MsgObj(h.ev, h.sender, << >>))
                             /\ session' = Collecting(session)
    /\ UNCHANGED << script_pool, cache, status_code, queries, breakerVars, envLog, now, bot_fail_tracker, pc, dispatchNo, dni, client, bots_order, attempt,
                    start_time, stop_collecting, played, result, reqStart, sendLog, sentAt,
                    closedMsgs, failLog, atOrder, blockedLog, timeoutAt >>

\* download_media has returned (or raised, which is caught per file): the
\* message object is built and appended
HandlerDownload(i, saved) ==
    /\ pc \in {"send", "poll", "finally"}
    /\ i \in 1..Len(handlers)
    /\ handlers[i].at = "download"
    /\ LET h == handlers[i]
           msg_urls == IF saved THEN << UrlObj(h.ev, clean_and_extract(h.ev.raw)) >> ELSE << >>
       IN  /\ handlers' = RemoveAt(handlers, i)
           /\ all_received_messages' =
                Append(all_received_messages, MsgObj(h.ev, h.sender, msg_urls))
           /\ session' = Collecting(session)
    /\ UNCHANGED << script_pool, cache, status_code, queries, breakerVars, envLog, now, bot_fail_tracker, pc, dispatchNo, dni, client, bots_order, attempt,
                    last_message_time, start_time, stop_collecting, played, result, reqStart,
                    sendLog, sentAt, closedMsgs, failLog, atOrder, answered, blockedLog,
                    timeoutAt >>

----------------------------------------------------------------------------
(* Between requests *)

\* time passes until the next request time; the request that has returned
\* leaves nothing behind but the module-level bot_fail_tracker
Elapse ==
    /\ pc = "done"
    /\ \E t \in RequestTimes : t > now /\ now' = t
    /\ pc' = "idle"
    /\ LET r == ReqFields(NoKey, NoTime)
       IN  /\ dni' = r.dni /\ client' = r.client /\ bots_order' = r.bots_order
           /\ attempt' = r.attempt /\ all_received_messages' = r.all_received_messages
           /\ last_message_time' = r.last_message_time /\ start_time' = r.start_time
           /\ stop_collecting' = r.stop_collecting /\ handlers' = r.handlers
           /\ played' = r.played /\ result' = r.result /\ reqStart' = r.reqStart
           /\ sendLog' = r.sendLog /\ sentAt' = r.sentAt /\ session' = r.session
           /\ closedMsgs' = r.closedMsgs /\ failLog' = r.failLog /\ atOrder' = r.atOrder
           /\ answered' = r.answered /\ envLog' = r.envLog
    /\ status_code' = NoStatusCode
    /\ UNCHANGED << script_pool, cache, queries, breakerVars, bot_fail_tracker, dispatchNo, blockedLog, timeoutAt >>

\* the /status route: is_bot_blocked for every actor of ALL_BOT_IDS
Status ==
    /\ pc \in {"idle", "done"}
    /\ LET p == is_bot_blocked(bot_fail_tracker, ALL_BOT_IDS[1], now)
           b == is_bot_blocked(p.tracker, ALL_BOT_IDS[2], now)
       IN  /\ bot_fail_tracker' = b.tracker
           /\ blockedLog' =
                [x \in Bots |->
                    IF x = ALL_BOT_IDS[1]
                    THEN CallLog(now, bot_fail_tracker[x], p.ret)
                    ELSE CallLog(now, p.tracker[x], b.ret)]
    /\ UNCHANGED << script_pool, cache, status_code, queries, breakerVars, now, pc, dispatchNo, timeoutAt, reqVars >>

----------------------------------------------------------------------------
Next ==
    \/ \E key \in QueryKeys : StartRequest(key)
    \/ \E conn \in ConnectOutcomes : Connect(conn)
    \/ \E hit \in BOOLEAN : CacheLookup(hit)
    \/ BuildBotsOrder
    \/ \E sent \in SendOutcomes : SendCommand(sent)
    \/ PollSleep
    \/ \E uploaded \in BOOLEAN : PollClose(uploaded)
    \/ PollTimeout
    \/ \E disc \in DisconnectOutcomes : Finally(disc)
    \/ \E sender \in Bots : Arrive(sender)
    \/ \E i \in 1..Len(handlers) : HandlerEntity(i)
    \/ \E i \in 1..Len(handlers), saved \in BOOLEAN : HandlerDownload(i, saved)
    \/ Elapse
    \/ Status

Spec == Init /\ [][Next]_vars

MediaSpec == MediaInit /\ [][Next]_vars

\* the steps of the coroutine send_telegram_command and of its handler tasks:
\* the event loop runs whichever of them is ready, and every awaited call
\* returns
RequestStep ==
    \/ \E conn \in ConnectOutcomes : Connect(conn)
    \/ \E hit \in BOOLEAN : CacheLookup(hit)
    \/ BuildBotsOrder
    \/ \E sent \in SendOutcomes : SendCommand(sent)
    \/ PollSleep
    \/ \E uploaded \in BOOLEAN : PollClose(uploaded)
    \/ PollTimeout
    \/ \E disc \in DisconnectOutcomes : Finally(disc)
HandlerStep ==
    \/ \E i \in 1..Len(handlers) : HandlerEntity(i)
    \/ \E i \in 1..Len(handlers), saved \in BOOLEAN : HandlerDownload(i, saved)

\* the actors answer with one message
LiveInit == InitWith("LiveScripts")

LiveSpec == LiveInit /\ [][Next]_vars /\ WF_vars(RequestStep) /\ WF_vars(HandlerStep)

----------------------------------------------------------------------------
(* The circuit breaker under concurrent requests.  bot_fail_tracker is a     *)
(* module-level dict shared by the request threads; is_bot_blocked reads it, *)
(* reads the clock, prints and pops in separate statements, without a lock.  *)

\* "last_fail_time = bot_fail_tracker.get(bot_id)": thread t enters
\* is_bot_blocked(bot_id) and reads the stored time
IsBlockedGet(t, bot_id) ==
    /\ threads[t].pc = "idle"
    /\ threads' = [threads EXCEPT ![t] =
                     [ pc |-> "is_bot_blocked", bot_id |-> bot_id,
                       last_fail_time |-> bot_fail_tracker[bot_id],
                       recAtStart |-> lastRecord[bot_id],
                       eligible |-> threads[t].eligible \ {bot_id} ]]
    /\ UNCHANGED << script_pool, cache, status_code, queries, now, bot_fail_tracker, lastOp, lastRecord, pc, dispatchNo, blockedLog,
                    timeoutAt, reqVars >>

\* the rest of is_bot_blocked: the comparison of the time read with the clock,
\* and "bot_fail_tracker.pop(bot_id, None)" on the shared dict if it expired
IsBlockedReturn(t) ==
    /\ threads[t].pc = "is_bot_blocked"
    /\ LET th == threads[t]
           read == [bot_fail_tracker EXCEPT ![th.bot_id] = th.last_fail_time]
           r == is_bot_blocked(read, th.bot_id, now)
           after == IF r.tracker # read
                    THEN [b \in Bots |-> IF r.tracker[b] # read[b] THEN r.tracker[b]
                                         ELSE bot_fail_tracker[b]]
                    ELSE bot_fail_tracker
       IN  /\ bot_fail_tracker' = after
           /\ lastOp' = OpLog("is_bot_blocked", th.bot_id, now, th.last_fail_time, r.ret,
                              bot_fail_tracker, after, th.recAtStart)
           /\ threads' = [threads EXCEPT ![t] =
                            IdleThread(IF r.ret THEN th.eligible
                                       ELSE th.eligible \cup {th.bot_id})]
    /\ UNCHANGED << script_pool, cache, status_code, queries, now, lastRecord, pc, dispatchNo, blockedLog, timeoutAt, reqVars >>

\* record_bot_failure(bot_id) by a thread whose request found bot_id not blocked
\* and is trying it
RecordFailureCall(t, bot_id) ==
    /\ threads[t].pc = "idle"
    /\ bot_id \in threads[t].eligible
    /\ LET after == record_bot_failure(bot_fail_tracker, bot_id, now)
       IN  /\ bot_fail_tracker' = after
           /\ lastOp' = OpLog("record_bot_failure", bot_id, now, bot_fail_tracker[bot_id],
                              FALSE, bot_fail_tracker, after, lastRecord[bot_id])
    /\ lastRecord' = [lastRecord EXCEPT ![bot_id] = now]
    /\ threads' = [threads EXCEPT ![t].eligible = @ \ {bot_id}]
    /\ UNCHANGED << script_pool, cache, status_code, queries, now, pc, dispatchNo, blockedLog, timeoutAt, reqVars >>

\* the request of thread t returns
RequestEnds(t) ==
    /\ threads[t].pc = "idle"
    /\ threads[t].eligible # {}
    /\ threads' = [threads EXCEPT ![t] = IdleThread({})]
    /\ UNCHANGED << script_pool, cache, status_code, queries, now, bot_fail_tracker, lastOp, lastRecord, pc, dispatchNo, blockedLog,
                    timeoutAt, reqVars >>

\* the clock moves on to a later reading; a request is over long before a block
\* window is, so the long steps are taken between requests
BreakerTick ==
    /\ \E t \in BreakerTimes :
         /\ t > now
         /\ t - now < BlockTicks - 1 \/ \A th \in Threads : threads[th] = IdleThread({})
         /\ now' = t
    /\ UNCHANGED << script_pool, cache, status_code, queries, bot_fail_tracker, breakerVars, pc, dispatchNo, blockedLog, timeoutAt,
                    reqVars >>

BreakerNext ==
    \/ \E t \in Threads, bot_id \in Bots : IsBlockedGet(t, bot_id)
    \/ \E t \in Threads : IsBlockedReturn(t)
    \/ \E t \in Threads, bot_id \in Bots : RecordFailureCall(t, bot_id)
    \/ \E t \in Threads : RequestEnds(t)
    \/ BreakerTick

BreakerSpec == Init /\ [][BreakerNext]_vars

----------------------------------------------------------------------------
(* Two requests at the same time.  Every call of send_telegram_command       *)
(* creates its own TelegramClient from the one SESSION_STRING and registers  *)
(* its temp_handler for events.NewMessage(incoming=True); what the account   *)
(* receives while a client is connected reaches that client's handler.       *)
(* Which of several connections of one authorization is handed an update is  *)
(* not decided by the program: every nonempty set of connected clients is    *)
(* possible.  Both actors are eligible; the session with the primary is      *)
(* followed.                                                                 *)

\* steps 1-11 of the request: connect, bots_order, handler, send_message
CrossStart(q, key) ==
    /\ queries[q].pc = "idle"
    /\ now \in CrossStartTimes
    /\ queries' = [queries EXCEPT ![q] =
                     [IdleQuery EXCEPT !.pc = "poll", !.dni = key, !.sentAt = now,
                                       !.last_message_time = now]]
    /\ UNCHANGED << script_pool, cache, status_code, now, bot_fail_tracker, breakerVars, pc, dispatchNo, blockedLog,
                    timeoutAt, reqVars >>

\* the primary answers the command of q; the clients of receivers get the
\* message and start a temp_handler task each
CrossReply(q, receivers) ==
    /\ queries[q].pc = "poll"
    /\ ~queries[q].replied
    /\ now - queries[q].sentAt \in ArrivalOffsets
    /\ receivers # {}
    /\ \A r \in receivers : queries[r].pc = "poll"
    /\ queries' =
         [r \in Queries |->
            LET x == IF r = q THEN [queries[r] EXCEPT !.replied = TRUE] ELSE queries[r]
            IN  IF r \in receivers
                THEN [x EXCEPT !.handlers =
                        Append(@, [ev |-> ReplyTo(queries[q].dni), sender |-> LEDERDATA_BOT_ID,
                                   re |-> q, since |-> now])]
                ELSE x]
    /\ UNCHANGED << script_pool, cache, status_code, now, bot_fail_tracker, breakerVars, pc, dispatchNo, blockedLog,
                    timeoutAt, reqVars >>

\* temp_handler of q for a message without media: sender check,
\* last_message_time, clean_and_extract, key filter, append
CrossHandle(q) ==
    /\ queries[q].pc = "poll"
    /\ queries[q].handlers # << >>
    /\ LET h == Head(queries[q].handlers)
           cleaned == clean_and_extract(h.ev.raw)
           x == [queries[q] EXCEPT !.handlers = Tail(@)]
       IN  queries' = [queries EXCEPT ![q] =
             IF ~SenderIsCurrentBot(h.sender, ALL_BOT_IDS) THEN x
             ELSE LET y == [x EXCEPT !.last_message_time = now,
                                     !.refreshedBy = @ \cup {h.re}]
                  IN  IF RejectedByKey(queries[q].dni, cleaned) THEN y
                      ELSE [y EXCEPT !.all_received_messages =
                                        Append(@, MsgObj(h.ev, h.sender, << >>)),
                                     !.origins = Append(@, h.re)]]
    /\ UNCHANGED << script_pool, cache, status_code, now, bot_fail_tracker, breakerVars, pc, dispatchNo, blockedLog,
                    timeoutAt, reqVars >>

\* the conditions of the waiting loop of q
CrossSilence(q) ==
    /\ Len(queries[q].all_received_messages) > 0
    /\ now - queries[q].last_message_time > IdleTicks
CrossElapsed(q) == now - queries[q].sentAt > TimeoutOf(LEDERDATA_BOT_ID)

\* the waiting loop of q is left and the session with the primary is over
CrossClose(q) ==
    /\ queries[q].pc = "poll"
    /\ CrossSilence(q) \/ CrossElapsed(q)
    /\ queries' = [queries EXCEPT ![q].pc = "done", ![q].handlers = << >>]
    /\ UNCHANGED << script_pool, cache, status_code, now, bot_fail_tracker, breakerVars, pc, dispatchNo, blockedLog,
                    timeoutAt, reqVars >>

\* the waiting loops sleep for half a second
CrossTick ==
    /\ \E q \in Queries : queries[q].pc = "poll"
    /\ \A q \in Queries :
          queries[q].pc = "poll" =>
             /\ ~CrossSilence(q) /\ ~CrossElapsed(q)
             /\ \A i \in 1..Len(queries[q].handlers) :
                   now - queries[q].handlers[i].since < MaxAwaitTicks
    /\ now' = now + 1
    /\ UNCHANGED << script_pool, cache, status_code, queries, bot_fail_tracker, breakerVars, pc, dispatchNo, blockedLog,
                    timeoutAt, reqVars >>

CrossNext ==
    \/ \E q \in Queries, key \in CrossKeys : CrossStart(q, key)
    \/ \E q \in Queries, receivers \in SUBSET Queries : CrossReply(q, receivers)
    \/ \E q \in Queries : CrossHandle(q)
    \/ \E q \in Queries : CrossClose(q)
    \/ CrossTick

CrossSpec == Init /\ [][CrossNext]_vars

----------------------------------------------------------------------------
(* The storage cache helpers: get_cached_file and save_file_to_cache         *)

\* a helper without its try/except: the exception reaches the caller
OnExceptionPropagates(fn) == [ret |-> "none", raised |-> TRUE]

\* "except Exception: return None" and "except Exception: return False"
OnException(fn) ==
    [ret |-> IF fn = "get_cached_file" THEN "None" ELSE "False", raised |-> FALSE]

\* the call of this step raised
CacheFail(step) ==
    cache' = [cache EXCEPT !.pc = "returned", !.failed = step,
                           !.ret = OnException(cache.fn).ret,
                           !.raised = OnException(cache.fn).raised]

otherVars == << script_pool, status_code, queries, breakerVars, now, bot_fail_tracker, pc,
                dispatchNo, blockedLog, timeoutAt, reqVars >>

\* a caller calls get_cached_file(command, params)
GetCachedFile(command, params) ==
    /\ cache.pc = "idle"
    /\ cache' = [cache EXCEPT !.pc = "init_firebase", !.fn = "get_cached_file",
                              !.command = command, !.params = params]
    /\ UNCHANGED otherVars

\* a caller calls save_file_to_cache(command, params, file_path, content_type)
\* with a file of this extension
SaveFileToCache(command, params, extension) ==
    /\ cache.pc = "idle"
    /\ cache' = [cache EXCEPT !.pc = "init_firebase", !.fn = "save_file_to_cache",
                              !.command = command, !.params = params,
                              !.extension = extension]
    /\ UNCHANGED otherVars

\* "bucket = init_firebase()"
InitFirebase(outcome) ==
    /\ cache.pc = "init_firebase"
    /\ IF outcome = "error"
       THEN CacheFail("init_firebase")
       ELSE cache' = [cache EXCEPT !.steps = Append(@, "init_firebase"),
                                   !.pc = IF cache.fn = "get_cached_file" THEN "list_blobs"
                                          ELSE "upload"]
    /\ UNCHANGED otherVars

\* "blobs = list(bucket.list_blobs(prefix=...)); if not blobs: return None"
ListBlobs(outcome) ==
    /\ cache.pc = "list_blobs"
    /\ IF outcome = "error"
       THEN CacheFail("list_blobs")
       ELSE LET blobs == list_blobs(cache.bucket, cache.command,
                                    generate_cache_key(cache.command, cache.params))
            IN  IF blobs = {}
                THEN cache' = [cache EXCEPT !.steps = Append(@, "list_blobs"),
                                            !.pc = "returned", !.ret = "None"]
                ELSE cache' = [cache EXCEPT !.steps = Append(@, "list_blobs"),
                                            !.pc = "temp_file", !.blobs = blobs]
    /\ UNCHANGED otherVars

\* "temp_file = tempfile.NamedTemporaryFile(delete=False)"
TempFile(outcome) ==
    /\ cache.pc = "temp_file"
    /\ IF outcome = "error"
       THEN CacheFail("temp_file")
       ELSE cache' = [cache EXCEPT !.steps = Append(@, "temp_file"), !.pc = "download"]
    /\ UNCHANGED otherVars

\* "blob.download_to_filename(temp_file.name)" and the return of the dict
Download(outcome) ==
    /\ cache.pc = "download"
    /\ IF outcome = "error"
       THEN CacheFail("download")
       ELSE cache' = [cache EXCEPT !.steps = Append(@, "download"), !.pc = "returned",
                                   !.ret = "file", !.blobs = {FirstBlob(cache.blobs)}]
    /\ UNCHANGED otherVars

\* "blob.upload_from_filename(file_path, content_type=content_type)" and
\* "return True"
Upload(outcome) ==
    /\ cache.pc = "upload"
    /\ IF outcome = "error"
       THEN CacheFail("upload")
       ELSE cache' = [cache EXCEPT
                        !.steps = Append(@, "upload"), !.pc = "returned", !.ret = "True",
                        !.bucket = @ \cup { build_storage_path(cache.command,
                                              generate_cache_key(cache.command, cache.params),
                                              cache.extension) }]
    /\ UNCHANGED otherVars

\* the caller goes on with the value returned
CacheReturn ==
    /\ cache.pc = "returned"
    /\ cache' = IdleCache(cache.bucket)
    /\ UNCHANGED otherVars

StorageNext ==
    \/ \E command \in CacheCommands, params \in CacheParams : GetCachedFile(command, params)
    \/ \E command \in CacheCommands, params \in CacheParams, extension \in Extensions :
           SaveFileToCache(command, params, extension)
    \/ \E outcome \in CallOutcomes : InitFirebase(outcome)
    \/ \E outcome \in CallOutcomes : ListBlobs(outcome)
    \/ \E outcome \in CallOutcomes : TempFile(outcome)
    \/ \E outcome \in CallOutcomes : Download(outcome)
    \/ \E outcome \in CallOutcomes : Upload(outcome)
    \/ CacheReturn

StorageSpec == Init /\ [][StorageNext]_vars

----------------------------------------------------------------------------
(* Properties *)

Primary == LEDERDATA_BOT_ID
Backup == LEDERDATA_BACKUP_BOT_ID

\* the verdict the classification contract gives a message list:
\* format_error > not_found > rate_limited > ok
Verdict(msgs) ==
    IF \E i \in 1..Len(msgs) : msgs[i].message.fmt THEN "format_error"
    ELSE IF \E i \in 1..Len(msgs) : msgs[i].fields["not_found"] # NoVal THEN "not_found"
    ELSE IF \E i \in 1..Len(msgs) : msgs[i].message.spam THEN "rate_limited"
    ELSE "ok"

IndexOf(order, b) == CHOOSE i \in 1..Len(order) : order[i] = b
IsLast(order, b) == IndexOf(order, b) = Len(order)
TimeoutRecords == { i \in 1..Len(failLog) : failLog[i].cause = "timeout" }
Returned == pc \in {"finally", "done"}

\* C1: in a dispatch where the primary's session ends CLOSED_OK with a verdict
\* other than rate_limited, the command is never sent to the backup.
C1_NoBackupAfterPrimaryAnswer ==
    (session[Primary] = "CLOSED_OK" /\ Verdict(closedMsgs) # "rate_limited")
        => Backup \notin Range(sendLog)

\* the primary answered (verdict ok), the backup was eligible and was never sent
C1_Witness ==
    /\ pc = "done"
    /\ session[Primary] = "CLOSED_OK"
    /\ Verdict(closedMsgs) = "ok"
    /\ bots_order = << Primary, Backup >>
    /\ sendLog = << Primary >>

\* C2: within one dispatch the command is sent to each actor at most once, at
\* most twice in total, and each send targets the next actor of the eligible list.
C2_EachActorSentOnce ==
    /\ \A b \in Bots : Cardinality({ i \in 1..Len(sendLog) : sendLog[i] = b }) <= 1
    /\ Len(sendLog) <= 2
    /\ IsPrefix(sendLog, bots_order)

\* a retry happened: the primary timed out and the backup was sent the command
C2_Witness ==
    /\ session[Primary] = "CLOSED_EMPTY_TIMEOUT"
    /\ sendLog = << Primary, Backup >>
    /\ pc = "done"

C4_PrimaryBlockedForWindow ==
    /\ session[Primary] = "CLOSED_EMPTY_TIMEOUT" =>
          /\ timeoutAt[Primary] # NoTime
          /\ bot_fail_tracker[Primary] = timeoutAt[Primary]
                \/ now - timeoutAt[Primary] >= BlockTicks
    /\ timeoutAt[Primary] # NoTime =>
          /\ is_bot_blocked(bot_fail_tracker, Primary, now).ret
                <=> (now - timeoutAt[Primary] < BlockTicks)
          /\ blockedLog[Primary].at >= timeoutAt[Primary] =>
                (blockedLog[Primary].ret
                    <=> (blockedLog[Primary].at - timeoutAt[Primary] < BlockTicks))

\* is_bot_blocked(primary) called exactly one block duration after the timeout
C4_Witness ==
    /\ timeoutAt[Primary] # NoTime
    /\ now - timeoutAt[Primary] = BlockTicks
    /\ blockedLog[Primary].at = now
    /\ ~blockedLog[Primary].ret

\* C5: a session that ends CLOSED_OK with a message carrying the anti-spam
\* marker (verdict rate_limited) is discarded: the next eligible actor is tried,
\* or the dispatch fails with rate_limited_exhausted; it is never returned as ok.
C5_RateLimitedNeverOk ==
    \A b \in Bots :
        (session[b] = "CLOSED_OK" /\ Verdict(closedMsgs) = "rate_limited") =>
            /\ result.status # "ok"
            /\ IF IsLast(bots_order, b)
               THEN Returned /\ result = ErrorResult("rate_limited_exhausted")
               ELSE attempt = IndexOf(bots_order, b) + 1

\* C6: a session whose verdict is format_error or not_found makes the dispatch
\* return that error at once: no further send, no aggregation of the messages.
C6_TerminalVerdictReturned ==
    \A b \in Bots :
        (session[b] = "CLOSED_OK" /\ Verdict(closedMsgs) \in {"format_error", "not_found"}) =>
            /\ Returned
            /\ result.status = IF Verdict(closedMsgs) = "format_error"
                               THEN "error_bot_format" ELSE "error_not_found"
            /\ result.bot_used = b
            /\ sendLog[Len(sendLog)] = b
            /\ result.message = << >> /\ result.urls = << >> /\ result.fields = NoFields
            /\ result.dni = NoVal /\ result.ruc = NoVal /\ result.total_messages = 0

\* the primary answered "not found" while the backup was eligible
C6_Witness ==
    /\ pc = "done"
    /\ session[Primary] = "CLOSED_OK"
    /\ Verdict(closedMsgs) = "not_found"
    /\ bots_order = << Primary, Backup >>
    /\ result.status = "error_not_found"

\* a raw text that is a "no results" or a "use the correct format" reply
TerminalReply(raw) == raw.nf = "head" \/ raw.fmt = "head"

\* C7: for every query, with or without a correlation key, an actor that answers
\* with a "no results" or "use the correct format" reply gives the caller the
\* not_found / format_error error, and no failure is recorded for that actor.
C7_TerminalReplySurfaced ==
    \A b \in Bots :
        (answered[b] # {} /\ \A raw \in answered[b] : TerminalReply(raw)) =>
            /\ session[b] # "CLOSED_EMPTY_TIMEOUT"
            /\ \A i \in TimeoutRecords : failLog[i].bot # b
            /\ pc = "done" => result.status \in {"error_not_found", "error_bot_format"}

\* C8: the eligible list is exactly the actors is_bot_blocked finds unblocked at
\* dispatch start, primary before backup; with both blocked the dispatch fails
\* with the all-actors-blocked error and sends nothing.
C8_EligibleList ==
    atOrder.at # NoTime =>
        LET blockedAtStart(b) ==
                /\ atOrder.tracker[b] # NoTime
                /\ atOrder.at - atOrder.tracker[b] < BlockTicks
            free(b) == ~blockedAtStart(b)
            expected == SelectSeq(ALL_BOT_IDS, free)
        IN  /\ bots_order = expected
            /\ expected = << >> =>
                  /\ Returned
                  /\ result = ErrorResult("all_blocked")
                  /\ sendLog = << >>

\* a dispatch that found both actors blocked
C8_Witness ==
    /\ pc = "done"
    /\ atOrder.at # NoTime
    /\ \A b \in Bots : atOrder.tracker[b] # NoTime /\ atOrder.at - atOrder.tracker[b] < BlockTicks
    /\ result = ErrorResult("all_blocked")

\* C9: when the primary times out the backup is sent the command exactly once
\* and an ok answer is tagged with the backup; a later dispatch started within
\* the block window of that timeout sends nothing to the primary and contacts
\* the backup first.
C9_FailoverThenSkip ==
    /\ (session[Primary] = "CLOSED_EMPTY_TIMEOUT" /\ bots_order = << Primary, Backup >>) =>
          /\ (pc = "send" /\ sendLog = << Primary >>) \/ sendLog = << Primary, Backup >>
          /\ result.status = "ok" => result.bot_used = Backup
    /\ ( /\ atOrder.at # NoTime
         /\ timeoutAt[Primary] # NoTime
         /\ timeoutAt[Primary] < reqStart
         /\ reqStart - timeoutAt[Primary] < BlockTicks ) =>
          /\ Primary \notin Range(sendLog)
          /\ Primary \notin Range(bots_order)
          /\ sendLog # << >> => sendLog[1] = Backup

\* the second dispatch, inside the block window, answered by the backup alone
C9_Witness ==
    /\ pc = "done"
    /\ dispatchNo = 2
    /\ timeoutAt[Primary] # NoTime
    /\ timeoutAt[Primary] < reqStart
    /\ reqStart - timeoutAt[Primary] < BlockTicks
    /\ sendLog = << Backup >>
    /\ result.status = "ok"
    /\ result.bot_used = Backup

\* C10: is_bot_blocked returns true iff a failure time is stored for the actor
\* and the time since it is less than the block duration.
C10_IsBlockedIff ==
    \A b \in Bots :
        blockedLog[b].at # NoTime =>
            (blockedLog[b].ret <=>
                (blockedLog[b].stored # NoTime
                    /\ blockedLog[b].at - blockedLog[b].stored < BlockTicks))

\* a call one tick before the stored failure expires: still blocked
C10_Witness ==
    \E b \in Bots :
        /\ blockedLog[b].stored # NoTime
        /\ blockedLog[b].at - blockedLog[b].stored = BlockTicks - 1
        /\ blockedLog[b].ret

----------------------------------------------------------------------------
(* Properties of the circuit breaker, checked under BreakerSpec *)

IsCall(op) == lastOp.op = op
OtherBots(bot_id) == Bots \ {bot_id}

\* C11: an is_bot_blocked call that finds a stored time older than the block
\* duration removes that actor's stored time; a call that returns true, or that
\* finds no stored time, leaves the whole failure map as it was; no call
\* changes the entry of another actor.
C11_IsBlockedFrame ==
    IsCall("is_bot_blocked") =>
        /\ (lastOp.found # NoTime /\ lastOp.at - lastOp.found > BlockTicks)
              => lastOp.after[lastOp.bot_id] = NoTime
        /\ (lastOp.ret \/ lastOp.found = NoTime) => lastOp.after = lastOp.before
        /\ \A o \in OtherBots(lastOp.bot_id) : lastOp.after[o] = lastOp.before[o]

\* a call found an expired time and removed it, the other actor keeping its own
C11_Witness ==
    /\ IsCall("is_bot_blocked")
    /\ lastOp.found # NoTime /\ lastOp.at - lastOp.found > BlockTicks
    /\ lastOp.before[lastOp.bot_id] # NoTime /\ lastOp.after[lastOp.bot_id] = NoTime
    /\ \E o \in OtherBots(lastOp.bot_id) : lastOp.before[o] # NoTime

\* C12: record_bot_failure sets the actor's stored time to the current time
\* whatever was stored before; a failure recorded on a blocked actor restarts its window, which
\* then lasts the block duration from the later time.
C12_RecordOverwrites ==
    IsCall("record_bot_failure") =>
        /\ lastOp.after[lastOp.bot_id] = lastOp.at
        /\ is_bot_blocked(lastOp.after, lastOp.bot_id, lastOp.at + BlockTicks - 1).ret
        /\ ~is_bot_blocked(lastOp.after, lastOp.bot_id, lastOp.at + BlockTicks).ret

\* a failure recorded on an actor whose earlier failure is still within the window
C12_Witness ==
    /\ IsCall("record_bot_failure")
    /\ lastOp.found # NoTime /\ lastOp.found < lastOp.at
    /\ lastOp.at - lastOp.found < BlockTicks
    /\ lastOp.after[lastOp.bot_id] = lastOp.at

\* C13: for each actor a, an is_bot_blocked(a) call that follows
\* record_bot_failure(a) within the block window returns true, and the
\* record_bot_failure(a) call changes neither the stored time nor the
\* is_bot_blocked result of the other actor.
C13_RecordThenBlocked ==
    /\ IsCall("record_bot_failure") =>
          \A o \in OtherBots(lastOp.bot_id) :
              /\ lastOp.after[o] = lastOp.before[o]
              /\ is_bot_blocked(lastOp.after, o, lastOp.at).ret
                    = is_bot_blocked(lastOp.before, o, lastOp.at).ret
    /\ ( /\ IsCall("is_bot_blocked")
         /\ lastOp.recAtStart # NoTime /\ lastOp.found = lastOp.recAtStart
         /\ lastOp.at - lastOp.found < BlockTicks ) => lastOp.ret

\* the backup is found blocked after its failure, the primary having none
C13_Witness ==
    /\ IsCall("is_bot_blocked") /\ lastOp.bot_id = Backup
    /\ lastOp.recAtStart # NoTime /\ lastOp.found = lastOp.recAtStart
    /\ lastOp.at - lastOp.found = BlockTicks - 1
    /\ lastOp.ret
    /\ lastOp.before[Primary] = NoTime

\* C14: under any interleaving of the threads a recorded failure is never
\* lost: every is_bot_blocked call that starts after a record_bot_failure for
\* the same actor returned, and within the block window of it, returns true.
C14_RecordedFailureNeverLost ==
    ( /\ IsCall("is_bot_blocked")
      /\ lastOp.recAtStart # NoTime
      /\ lastOp.at - lastOp.recAtStart < BlockTicks ) => lastOp.ret

\* the same when no other thread is inside is_bot_blocked for that actor
\* while the failure is recorded: the call reads the time the record stored
C14_SequentialCase ==
    ( /\ IsCall("is_bot_blocked")
      /\ lastOp.recAtStart # NoTime /\ lastOp.found = lastOp.recAtStart
      /\ lastOp.at - lastOp.recAtStart < BlockTicks ) => lastOp.ret

----------------------------------------------------------------------------
(* Properties of the classification and of the collection session, checked *)
(* under Spec                                                               *)

HasFormatMarker(msgs) == \E i \in 1..Len(msgs) : msgs[i].message.fmt
HasNotFound(msgs) == \E i \in 1..Len(msgs) : msgs[i].fields["not_found"] # NoVal

\* C15: every non-empty collected list gets exactly one verdict, with the
\* precedence format_error > not_found > rate_limited > ok: format_error if any
\* message holds the format marker, whatever else the list holds; otherwise
\* not_found if any message carries the flag; otherwise rate_limited if any
\* message carries the anti-spam marker; otherwise ok.
C15_VerdictPrecedence ==
    \A b \in Bots :
        (session[b] = "CLOSED_OK" /\ closedMsgs # << >>) =>
            LET v == Verdict(closedMsgs)
            IN  CASE v = "format_error" -> Returned /\ result.status = "error_bot_format"
                  [] v = "not_found" -> Returned /\ result.status = "error_not_found"
                  [] v = "rate_limited" ->
                        result.status \notin {"ok", "error_bot_format", "error_not_found"}
                  [] OTHER -> Returned /\ result.status = "ok"

\* the part of C15 about the two error markers: a list that holds both the
\* format marker and the not_found flag is answered with the format error
C15_FormatBeforeNotFound ==
    \A b \in Bots :
        (session[b] = "CLOSED_OK" /\ HasFormatMarker(closedMsgs) /\ HasNotFound(closedMsgs)) =>
            Returned /\ result.status = "error_bot_format"

\* both markers in one list, the not_found message first
C15_BothMarkersCase ==
    /\ session[Primary] = "CLOSED_OK" /\ Len(closedMsgs) = 2
    /\ closedMsgs[1].fields["not_found"] # NoVal /\ closedMsgs[2].message.fmt
    /\ result.status = "error_bot_format"

\* the total timeout of an actor in ticks, from the figures of the claims
TotalTimeoutTicks(b) == TicksPerSecond * (IF b = Primary THEN 35 ELSE 50)

\* C16: a session without an accepted message does not close before the total
\* timeout has elapsed since the send; it closes CLOSED_EMPTY_TIMEOUT at the
\* first polling tick at which now - start_time exceeds the total timeout (35 s
\* for the primary, 50 s for the backup).
C16_EmptyTimeoutAtTotal ==
    [][ /\ \A b \in Bots :
              ( /\ session[b] = "WAITING" /\ session'[b] \notin {"WAITING", "COLLECTING"}
                /\ Len(all_received_messages) = 0 ) =>
                  /\ session'[b] = "CLOSED_EMPTY_TIMEOUT"
                  /\ now - sentAt[b] = TotalTimeoutTicks(b) + 1
        /\ (pc' = "poll" /\ Len(all_received_messages') = 0) =>
              now' - start_time' <= TotalTimeoutTicks(bots_order'[attempt']) + 1
      ]_vars

\* the backup's session has just closed empty, half a second after its 50 s
C16_Witness ==
    /\ pc = "finally"
    /\ session[Backup] = "CLOSED_EMPTY_TIMEOUT"
    /\ session[Primary] = "CLOSED_EMPTY_TIMEOUT"
    /\ now - sentAt[Backup] = TotalTimeoutTicks(Backup) + 1

\* C17: a collecting session closes CLOSED_OK at the first polling tick at which
\* now - last_message_time exceeds the idle threshold, without waiting for the
\* total timeout; it does not close while the silence is at most the threshold
\* unless the total timeout has elapsed.
C17_IdleCompletion ==
    [][ /\ \A b \in Bots :
              (session[b] # "CLOSED_OK" /\ session'[b] = "CLOSED_OK") =>
                  \/ now - last_message_time > IdleTicks
                  \/ now - sentAt[b] > TotalTimeoutTicks(b)
        /\ (pc' = "poll" /\ Len(all_received_messages') > 0) =>
              now' - last_message_time' <= IdleTicks + 1
      ]_vars

\* the primary's session has just closed on silence, long before its 35 s
C17_Witness ==
    /\ pc = "finally"
    /\ session[Primary] = "CLOSED_OK"
    /\ now - last_message_time = IdleTicks + 1
    /\ now - sentAt[Primary] < TotalTimeoutTicks(Primary)

\* C18: when the total timeout elapses on a session that holds at least one
\* message and is not silent yet, the session closes CLOSED_OK with all the
\* messages collected so far: no failure is recorded, and the messages are
\* classified and aggregated.
C18_TotalTimeoutKeepsMessages ==
    [][ ( /\ pc = "poll" /\ pc' # "poll"
          /\ Len(all_received_messages) > 0
          /\ now - last_message_time <= IdleTicks
          /\ now - start_time > TotalTimeoutTicks(bots_order[attempt]) ) =>
            LET cur == bots_order[attempt]
            IN  /\ session'[cur] = "CLOSED_OK"
                /\ closedMsgs' = all_received_messages
                /\ failLog' = failLog /\ bot_fail_tracker' = bot_fail_tracker
                /\ result'.bot_used = cur
                /\ result'.status \in {"ok", "error_not_found", "error_bot_format"}
                /\ result'.status = "ok" =>
                      /\ result'.total_messages = Len(all_received_messages)
                      /\ result'.message = [i \in 1..Len(all_received_messages) |->
                                              all_received_messages[i].message]
      ]_vars

\* the primary's session has just closed at the total timeout with a message
\* that came in less than the idle threshold before
C18_Witness ==
    /\ pc = "finally"
    /\ session[Primary] = "CLOSED_OK"
    /\ now - sentAt[Primary] > TotalTimeoutTicks(Primary)
    /\ now - last_message_time <= IdleTicks
    /\ result.status = "ok" /\ result.total_messages = Len(closedMsgs)
    /\ failLog = << >>

\* C19: when the query has a correlation key, every message of the session's
\* list carries that key; a message with another key or without one is never
\* appended.
C19_MessagesCarryKey ==
    dni # NoKey =>
        /\ \A i \in 1..Len(all_received_messages) :
              all_received_messages[i].fields["dni"] = dni
        /\ \A i \in 1..Len(closedMsgs) : closedMsgs[i].fields["dni"] = dni

\* the actor sent a text with another key and then one with the key of the
\* query: only the second is in the list
C19_Witness ==
    /\ dni = "D1"
    /\ Len(played) = 2 /\ played[1].raw = RawData2 /\ played[2].raw = RawData1
    /\ handlers = << >>
    /\ Len(all_received_messages) = 1
    /\ all_received_messages[1].message.id = "data1"

\* the value the result holds for a key (dni and ruc are moved to the top level)
MergedValue(res, k) ==
    CASE k = "dni" -> res.dni
      [] k = "ruc" -> res.ruc
      [] OTHER -> res.fields[k]

\* C20: the merge of the fields is first-write-wins: for every key the merged
\* value is the value of the key in the earliest message of the list that has
\* it; a later message does not overwrite it.
C20_FirstWriteWins ==
    (Returned /\ result.status = "ok" /\ ~result.from_cache) =>
        \A k \in FieldKeys :
            LET has == { i \in 1..Len(closedMsgs) : closedMsgs[i].fields[k] # NoVal }
            IN  IF has = {}
                THEN MergedValue(result, k) = NoVal
                ELSE \E i \in has :
                        /\ \A j \in has : i <= j
                        /\ MergedValue(result, k) = closedMsgs[i].fields[k]

\* two messages with different values of dni: the first one's is returned
C20_Witness ==
    /\ Returned /\ result.status = "ok"
    /\ Len(closedMsgs) = 2
    /\ closedMsgs[1].fields["dni"] = "D2" /\ closedMsgs[2].fields["dni"] = "D1"
    /\ result.dni = "D2"

----------------------------------------------------------------------------
(* Properties of the aggregation, of the paths that return without a        *)
(* command being answered, and of the finally block                         *)

\* the position in which the actors sent the message with this text
ArrivalIndex(id) == CHOOSE i \in 1..Len(played) : played[i].raw.id = id

\* the result of a closed session, as opposed to the one of the storage lookup
Aggregated == Returned /\ result.status = "ok" /\ ~result.from_cache

\* C21: the narrative body of an ok result is the concatenation of the texts
\* of the accepted messages in the order in which the messages arrived from
\* the actor, also when the handling of an earlier message (the download of
\* its attachment) is still in progress when a later message arrives.
C21_NarrativeInArrivalOrder ==
    Aggregated =>
        \A i, j \in 1..Len(result.message) :
            i < j => ArrivalIndex(result.message[i].id) < ArrivalIndex(result.message[j].id)

RECURSIVE UrlsBefore(_, _)
\* the number of attachment references of the messages before the i-th
UrlsBefore(msgs, i) ==
    IF i <= 1 THEN 0 ELSE UrlsBefore(msgs, i - 1) + Len(msgs[i - 1].urls)

\* C22: the attachment list of an ok result holds one entry for every
\* attachment reference of every accepted message, in message order; two
\* attachments of the same sub-type are both kept.  (The entries of the files
\* stored by step 13 follow them.)
C22_AttachmentsKept ==
    Aggregated =>
        LET n == UrlsBefore(closedMsgs, Len(closedMsgs) + 1)
        IN  /\ Len(result.urls) >= n
            /\ \A i \in 1..Len(closedMsgs) : \A k \in 1..Len(closedMsgs[i].urls) :
                   result.urls[UrlsBefore(closedMsgs, i) + k] = closedMsgs[i].urls[k]
            /\ \A p \in (n + 1)..Len(result.urls) : result.urls[p].type = "firebase_storage"

\* two messages with one photo of the same sub-type each were aggregated
C22_Witness ==
    /\ Aggregated
    /\ Len(closedMsgs) = 2
    /\ Len(closedMsgs[1].urls) = 1 /\ Len(closedMsgs[2].urls) = 1
    /\ closedMsgs[1].urls[1].type = closedMsgs[2].urls[1].type
    /\ closedMsgs[1].urls[1].url # closedMsgs[2].urls[1].url
    /\ Len(result.urls) = 4

\* the value of the key in the earliest message of the list that has it
FirstValue(msgs, k) ==
    LET has == { i \in 1..Len(msgs) : msgs[i].fields[k] # NoVal }
    IN  IF has = {} THEN NoVal
        ELSE msgs[CHOOSE i \in has : \A j \in has : i <= j].fields[k]

IdentifierKeys == {"dni", "ruc"}

\* C23: in every ok result an identifier field (dni, ruc) that is present in
\* the merged fields appears at the top level of the result with the merged
\* value and is absent from the generic field map; it never appears in both
\* places; the fields that are not identifiers stay in the map.
C23_IdentifiersPromoted ==
    Aggregated =>
        /\ \A k \in IdentifierKeys :
              /\ result.fields[k] = NoVal
              /\ (IF k = "dni" THEN result.dni ELSE result.ruc) = FirstValue(closedMsgs, k)
        /\ \A k \in FieldKeys \ IdentifierKeys :
              result.fields[k] = FirstValue(closedMsgs, k)

\* an ok result with both identifiers and a field that is not an identifier
C23_Witness ==
    /\ Aggregated
    /\ FirstValue(closedMsgs, "dni") # NoVal /\ result.dni # NoVal
    /\ FirstValue(closedMsgs, "ruc") # NoVal /\ result.ruc # NoVal
    /\ result.fields["photo_type"] # NoVal

\* C24: when the storage lookup finds files for the query, the dispatch is
\* skipped: no command is sent to any actor, the circuit breaker is left as it
\* was, and the result is returned tagged as coming from the cache.
C24_CacheHitSkipsDispatch ==
    [][ (pc \in {"cache", "finally"} /\ envLog'.hit = "hit") =>
            /\ pc' \in {"finally", "done"}
            /\ result'.status = "ok" /\ result'.from_cache
            /\ sendLog' = << >> /\ failLog' = << >>
            /\ bots_order' = << >>
            /\ bot_fail_tracker' = bot_fail_tracker
            /\ blockedLog' = blockedLog ]_vars

\* a cache hit has returned while a failure of the primary is stored
C24_Witness ==
    /\ pc = "done"
    /\ envLog.hit = "hit"
    /\ result.from_cache
    /\ bot_fail_tracker[Primary] # NoTime

\* C25: when the transport cannot connect or the client is not authorized,
\* the query ends with a fatal error: no command is sent to any actor and no
\* failure is recorded in the circuit breaker for either actor.
C25_ConnectFailureIsFatal ==
    [][ (pc \in {"connect", "finally"} /\ envLog'.conn \notin {"none", "ok"}) =>
            /\ pc' \in {"finally", "done"}
            /\ result'.status = "error" /\ result'.error = envLog'.conn
            /\ sendLog' = << >> /\ failLog' = << >>
            /\ bot_fail_tracker' = bot_fail_tracker ]_vars

\* a request whose client was not authorized has returned, while a failure of
\* the primary is stored
C25_Witness ==
    /\ pc = "done"
    /\ envLog.conn = "unauthorized"
    /\ result.status = "error"
    /\ bot_fail_tracker[Primary] # NoTime

\* C26 as stated: a transport failure while sending the command to an actor
\* (the report that the user is blocked included) is fatal for the query: the
\* command is not sent to another actor afterwards and no failure is recorded
\* in the circuit breaker; the breaker is written only when a session ends
\* CLOSED_EMPTY_TIMEOUT.
C26_SendFailureIsFatal ==
    \A b \in Bots :
        session[b] = "SEND_FAILED" =>
            /\ Returned /\ result.status = "error"
            /\ sendLog[Len(sendLog)] = b
            /\ \A i \in 1..Len(failLog) : failLog[i].cause = "timeout"

\* C26 as the code has it: a send failure is fatal only for the last eligible
\* actor; otherwise the command goes to the next eligible actor.  A
\* UserBlockedError records a failure for the current actor, another error
\* whose text holds "blocked" records one for the primary when the primary is
\* the current actor, any other send failure records nothing.
C26_SendFailureFailsOver ==
    [][ (pc = "send" /\ sendLog' # sendLog /\ envLog'.sent[bots_order[attempt]] # "ok") =>
            LET b == bots_order[attempt]
                outcome == envLog'.sent[b]
                recorded == outcome = "UserBlockedError"
                            \/ (outcome = "BlockedTextError" /\ b = Primary)
            IN  /\ IF IsLast(bots_order, b)
                   THEN pc' = "finally" /\ result'.status = "error"
                   ELSE /\ pc' = "send" /\ result' = NoResult
                        /\ bots_order'[attempt'] = bots_order[IndexOf(bots_order, b) + 1]
                /\ IF recorded
                   THEN /\ failLog' = Append(failLog, [bot |-> b, at |-> now, cause |-> "send"])
                        /\ bot_fail_tracker' = [bot_fail_tracker EXCEPT ![b] = now]
                   ELSE failLog' = failLog /\ bot_fail_tracker' = bot_fail_tracker ]_vars

\* the primary reported UserBlockedError, a failure was recorded for it and
\* the command went to the backup
C26_Witness ==
    /\ envLog.sent[Primary] = "UserBlockedError"
    /\ \E i \in 1..Len(failLog) : failLog[i].bot = Primary /\ failLog[i].cause = "send"
    /\ bot_fail_tracker[Primary] # NoTime
    /\ sendLog = << Primary, Backup >>
    /\ sentAt[Backup] # NoTime

\* C27: on every path by which a dispatch that created a transport client
\* returns (ok, cache hit, classified error, timeout of all actors, all actors
\* blocked, unexpected exception), the transport is disconnected before the
\* result is returned to the caller, and a failing disconnect does not change
\* the result.
C27_DisconnectBeforeReturn ==
    [][ (pc # "done" /\ pc' = "done") =>
            /\ pc = "finally"
            /\ result' = result /\ result.status # "none"
            /\ envLog.conn \in ConnectOutcomes
            /\ envLog.conn # "no_credentials" =>
                  (envLog.disc = "none" /\ envLog'.disc \in DisconnectOutcomes /\ ~client') ]_vars

\* every actor timed out, the disconnect failed, and the error was returned
C27_Witness ==
    /\ pc = "done"
    /\ envLog.disc = "error"
    /\ result.status = "error" /\ result.error = "no_response"
    /\ sendLog = << Primary, Backup >>

ErrorKinds ==
    {"format_error", "not_found", "all_actors_blocked", "no_response",
     "rate_limited_exhausted", "transport_unavailable"}

\* the kind a caller can read off a failed result without parsing its message:
\* the status of the result, and the HTTP status handle_api_endpoint gives it
KindOf(res) ==
    CASE res.status = "error_bot_format" -> "format_error"
      [] res.status = "error_not_found" -> "not_found"
      [] res.status = "error" /\ HttpStatus(res) = 504 -> "no_response"
      [] OTHER -> res.status

\* C28: every failed dispatch returns an error whose kind is one of
\* format_error, not_found, all_actors_blocked, no_response,
\* rate_limited_exhausted, transport_unavailable, and the kinds
\* all_actors_blocked, no_response and transport_unavailable are told apart
\* by the kind value, not only by the message text.
C28_ErrorKinds ==
    (Returned /\ result.status # "ok") =>
        /\ KindOf(result) \in ErrorKinds
        /\ result.error = "all_blocked" => KindOf(result) = "all_actors_blocked"
        /\ result.error = "no_response" => KindOf(result) = "no_response"
        /\ result.error \in ConnectOutcomes => KindOf(result) = "transport_unavailable"

----------------------------------------------------------------------------
(* Properties of requests that run at the same time *)

\* C29: concurrent dispatches are independent of one another except for the
\* circuit breaker: a message an actor sends in reply to one query never
\* enters the session's message list, nor refreshes the idle timer, of another
\* query that runs at the same time on the same account, whether or not the
\* queries carry a correlation key.
C29_QueriesIndependent ==
    \A q \in Queries :
        /\ \A i \in 1..Len(queries[q].origins) : queries[q].origins[i] = q
        /\ queries[q].refreshedBy \subseteq {q}

----------------------------------------------------------------------------
(* Termination *)

OpenSession(b) == session[b] \in {"WAITING", "COLLECTING"}

\* a session is not open later than one polling tick after its total timeout,
\* and no actor is sent the command twice or outside the eligible list
C30_SessionBound ==
    /\ \A b \in Bots : OpenSession(b) => now - sentAt[b] <= TotalTimeoutTicks(b) + 1
    /\ Len(sendLog) <= Len(bots_order)
    /\ \A i, j \in 1..Len(sendLog) : i # j => sendLog[i] # sendLog[j]

\* C30: every collection session reaches a terminal state no later than one
\* polling tick after totalTimeout has elapsed since the send, however many
\* messages arrive; hence every dispatch terminates after at most one session
\* per eligible actor.
C30_SessionsTerminate ==
    /\ []C30_SessionBound
    /\ \A b \in Bots : OpenSession(b) ~> ~OpenSession(b)
    /\ (pc = "connect") ~> (pc = "done")

\* the session of the primary got its message just before the total timeout
\* and was closed one tick after it, and the dispatch has returned
C30_Witness ==
    /\ pc = "done"
    /\ session[Primary] = "CLOSED_OK"
    /\ Len(closedMsgs) > 0
    /\ sendLog = << Primary >>
    /\ now - sentAt[Primary] = TotalTimeoutTicks(Primary) + 1

----------------------------------------------------------------------------
(* Properties of the handler tasks running beside the waiting loop, of the  *)
(* session states and of the HTTP status                                    *)

\* the handler task i is at the point where get_entity has returned, its
\* sender passes the sender check and its text fails the key filter
RejectedAtFilter(i) ==
    /\ handlers[i].at = "entity"
    /\ SenderIsCurrentBot(handlers[i].sender, bots_order)
    /\ RejectedByKey(dni, clean_and_extract(handlers[i].ev.raw))

\* C31: an incoming message that is rejected by the correlation-key filter
\* leaves the session unchanged: it is not appended and the time of the last
\* activity is not refreshed, so that it cannot postpone the close by silence
\* of a session that is collecting.
C31_RejectedMessageLeavesSession ==
    [][ \A i \in 1..Len(handlers) :
            (RejectedAtFilter(i) /\ HandlerEntity(i)) =>
                /\ all_received_messages' = all_received_messages
                /\ last_message_time' = last_message_time
                /\ session' = session ]_vars

\* C32: every message in a session's list was sent by the actor of that
\* session: during the attempt with the backup a late message of the primary,
\* which timed out earlier in the same dispatch, is not appended, so a result
\* tagged with an actor aggregates only messages that actor sent.
C32_MessagesFromSessionActor ==
    /\ attempt \in 1..Len(bots_order) =>
          \A i \in 1..Len(all_received_messages) :
              all_received_messages[i].bot_id = bots_order[attempt]
    /\ (Returned /\ result.bot_used # NoBot) =>
          \A i \in 1..Len(closedMsgs) : closedMsgs[i].bot_id = result.bot_used

\* the handler tasks of messages of actor b that passed the key filter no later
\* than the total timeout after the send and are awaiting download_media
DownloadingAnswers(b) ==
    { i \in 1..Len(handlers) :
        /\ handlers[i].sender = b
        /\ handlers[i].at = "download"
        /\ handlers[i].since <= sentAt[b] + TimeoutOf(b) }

\* C33: a session ends CLOSED_EMPTY_TIMEOUT, and the primary is blocked for
\* it, only if no matching message of the actor arrived between the send and
\* the timeout: a matching message whose handler has started but has not
\* appended it yet (it is downloading the attachment) when the total timeout
\* elapses counts as a response and produces no timeout.
C33_TimeoutOnlyWithoutAnswer ==
    \A b \in Bots :
        session[b] = "CLOSED_EMPTY_TIMEOUT" => DownloadingAnswers(b) = {}

\* the texts of actor b that passed the sender check and the key filter, and
\* so refreshed last_message_time, while the session of b was open
MatchingAnswers(b) ==
    { raw \in answered[b] : ~RejectedByKey(dni, clean_and_extract(raw)) }

\* C34: the message list that is classified and aggregated holds every
\* matching message that arrived before the session closed: a message that
\* refreshed the time of the last activity is never missing from the result
\* because its handler was still running when the session closed, and after
\* the close no handler adds to what is aggregated.
C34_ClosedListComplete ==
    \A b \in Bots :
        session[b] = "CLOSED_OK" =>
            /\ \A raw \in MatchingAnswers(b) :
                   \E i \in 1..Len(closedMsgs) : closedMsgs[i].message.id = raw.id
            /\ (Aggregated => result.total_messages = Len(closedMsgs))

\* C35: a session moves only from WAITING to COLLECTING, from WAITING to
\* CLOSED_EMPTY_TIMEOUT and from COLLECTING to CLOSED_OK: a session that closes
\* CLOSED_OK holds at least one message, so the error "no messages received"
\* after a normal close never occurs, and CLOSED_EMPTY_TIMEOUT is never entered
\* with a non-empty message list.
C35_SessionTransitions ==
    [][ \A b \in Bots :
          /\ (session[b] = "WAITING" /\ session'[b] # "WAITING") =>
                session'[b] \in {"COLLECTING", "CLOSED_EMPTY_TIMEOUT"}
          /\ (session[b] = "COLLECTING" /\ session'[b] # "COLLECTING") =>
                session'[b] = "CLOSED_OK"
          /\ session[b] \in {"CLOSED_OK", "CLOSED_EMPTY_TIMEOUT"} =>
                session'[b] \in {session[b], "NONE"}
          /\ (session[b] # "CLOSED_OK" /\ session'[b] = "CLOSED_OK") =>
                /\ Len(all_received_messages) > 0
                /\ closedMsgs' = all_received_messages
                /\ result'.error # "no_messages"
          /\ (session[b] # "CLOSED_EMPTY_TIMEOUT" /\ session'[b] = "CLOSED_EMPTY_TIMEOUT") =>
                Len(all_received_messages) = 0
      ]_vars

\* the primary's session closed empty at its total timeout, the backup's
\* session collected a message and closed on silence
C35_Witness ==
    /\ pc = "finally"
    /\ session[Primary] = "CLOSED_EMPTY_TIMEOUT"
    /\ session[Backup] = "CLOSED_OK"
    /\ Len(closedMsgs) > 0
    /\ \A i \in 1..Len(closedMsgs) : closedMsgs[i].bot_id = Backup

\* a session of the dispatch closed with messages
ClosedOk == \E b \in Bots : session[b] = "CLOSED_OK"
\* every actor of bots_order was sent the command and stayed silent until its
\* total timeout
AllEligibleTimedOut ==
    /\ bots_order # << >>
    /\ \A i \in 1..Len(bots_order) : session[bots_order[i]] = "CLOSED_EMPTY_TIMEOUT"
\* the request has been answered
Answered == pc = "done"

\* C36: the HTTP layer maps the outcome of the dispatch to a status code: a
\* format error gives 400, not found gives 404, a dispatch in which every
\* eligible actor timed out gives 504, any other error gives 500, and every
\* result that is not an error (ok or cache hit) gives 200.
C36_HttpStatusOfOutcome ==
    Answered =>
        status_code =
            IF ClosedOk /\ HasFormatMarker(closedMsgs) THEN 400
            ELSE IF ClosedOk /\ HasNotFound(closedMsgs) THEN 404
            ELSE IF ClosedOk \/ envLog.hit = "hit" THEN 200
            ELSE IF AllEligibleTimedOut THEN 504
            ELSE 500

\* the dispatch ended with an error whose message holds "timeout": the last
\* actor of bots_order stayed silent until its total timeout, or the send to
\* it raised an error with "timeout" in its text
EndedWithTimeoutMessage ==
    /\ bots_order # << >>
    /\ LET last == bots_order[Len(bots_order)]
       IN  \/ session[last] = "CLOSED_EMPTY_TIMEOUT"
           \/ envLog.sent[last] = "TimeoutTextError"

\* C36 (amended): a format error gives 400, not found gives 404, an error
\* whose message holds "timeout" gives 504, which is the case when the last
\* eligible actor timed out (whatever ended the attempts before it) and when
\* the error that ended the dispatch has "timeout" in its text; any other
\* error gives 500, and every result that is not an error gives 200.
C36_HttpStatusOfMessage ==
    Answered =>
        status_code =
            IF ClosedOk /\ HasFormatMarker(closedMsgs) THEN 400
            ELSE IF ClosedOk /\ HasNotFound(closedMsgs) THEN 404
            ELSE IF ClosedOk \/ envLog.hit = "hit" THEN 200
            ELSE IF EndedWithTimeoutMessage THEN 504
            ELSE 500

\* the send to the primary failed, the backup stayed silent for its 50 s, and
\* the request was answered with 504
C36_Witness ==
    /\ Answered
    /\ session[Primary] = "SEND_FAILED"
    /\ session[Backup] = "CLOSED_EMPTY_TIMEOUT"
    /\ status_code = 504

\* C37: the storage cache helpers never pass an error on to their caller:
\* get_cached_file returns None when no object exists under the cache key and
\* when any storage operation fails, save_file_to_cache returns True only when
\* the upload completed and False on any failure.
C37_CacheHelpersNeverRaise ==
    cache.pc = "returned" =>
        /\ ~cache.raised
        /\ cache.fn = "get_cached_file" =>
              /\ cache.ret \in {"None", "file"}
              /\ cache.ret = "None" <=>
                    \/ cache.failed # "none"
                    \/ \A o \in cache.bucket :
                          ~( o.command = cache.command
                             /\ o.cache_key = << cache.command, cache.params >> )
        /\ cache.fn = "save_file_to_cache" =>
              /\ cache.ret \in {"True", "False"}
              /\ cache.ret = "True" <=>
                    /\ cache.steps = << "init_firebase", "upload" >>
                    /\ \E o \in cache.bucket :
                          /\ o.command = cache.command
                          /\ o.cache_key = << cache.command, cache.params >>
                          /\ o.extension = cache.extension
              /\ cache.ret = "False" <=> cache.failed # "none"

\* an object is stored under the key, its download failed and get_cached_file
\* returned None
C37_Witness ==
    /\ cache.pc = "returned" /\ cache.fn = "get_cached_file"
    /\ cache.blobs # {} /\ cache.failed = "download"
    /\ cache.ret = "None" /\ ~cache.raised

====
